---- MODULE Spec2Model ----
(***************************************************************************)
(* A model of vibeclaw-ai's OAuth credential store and authorization       *)
(* engine (packages/auth) and of the built-in protocol gateway             *)
(* (ProxyManager.startBuiltinProxy) together with ProxyManager.start, which *)
(* launches it.                                                            *)
(*                                                                         *)
(* Times are milliseconds, as Date.now() gives them.  A JavaScript object  *)
(* is a function from the keys it holds to their values; a key may hold    *)
(* the value UNDEF, which JSON.stringify drops.                            *)
(***************************************************************************)
EXTENDS Integers, FiniteSets, Sequences, TLC

VARIABLES
  now,         \* Date.now()
  multiFile,   \* ~/.vibepity/providers.json
  legacyFile,  \* ~/.vibepity/auth.json
  ops,         \* store operations performed so far
  last,        \* the store operation that completed last
  writers,     \* store writes under way, each between its read and its write
  flows,       \* the authenticateOAuth calls: listener, promise, requests
  authUp,      \* the process running the login flows is alive
  routes,      \* config.routes of the running gateway
  env,         \* process.env of the gateway
  gwUp,        \* the gateway process is alive
  reqs,        \* the requests the gateway has received
  probe,       \* the answer to a GET /health the gateway has just received
  mgr          \* ProxyManager: its fields, its start() call, the machine

fileVars == <<multiFile, legacyFile>>

opVars == <<ops, last, writers>>

authVars == <<flows, authUp>>

gwVars == <<routes, env, gwUp, reqs, probe, mgr>>

vars ==
  <<now, multiFile, legacyFile, ops, last, writers, flows, authUp, routes,
    env, gwUp, reqs, probe, mgr>>

-----------------------------------------------------------------------------
(* Bounds of the model                                                     *)

MaxOps == 2

MaxTicks == 1

MaxFlows == 2

MaxExchanges == 2

MaxReqs == 1

MaxChunks == 1

MaxWriters == 2

-----------------------------------------------------------------------------
(* Values                                                                  *)

Providers == {"codex", "claude", "gemini"}

DefaultProvider == "codex"

UNDEF == "undefined"

Minute == 60 * 1000

StartTime == 100 * Minute

FiveMinutes == 5 * 60 * 1000

DefaultExpiresIn == 3600

NumKeys == {"expires_at", "obtained_at", "expires_in"}

EmptyObj == [k \in {} |-> UNDEF]

\* o[k] in JavaScript: a missing key reads as undefined.
Get(o, k) == IF k \in DOMAIN o THEN o[k] ELSE UNDEF

\* !o[k] for a string-valued key: undefined and "" are falsy.
Falsy(o, k) == k \notin DOMAIN o \/ o[k] = UNDEF \/ o[k] = ""

\* JSON.parse(JSON.stringify(o)): keys holding undefined are dropped.
JsonRoundTrip(o) ==
  [k \in {j \in DOMAIN o : j \in NumKeys \/ o[j] # UNDEF} |-> o[k]]

\* { ...tokens, provider }
WithProvider(tokens, provider) ==
  [k \in DOMAIN tokens \cup {"provider"} |->
     IF k = "provider" THEN provider ELSE tokens[k]]

\* A file: missing, unreadable or not JSON ("corrupt"), the JSON value null,
\* or a JSON object (val).
AbsentFile == [kind |-> "absent", val |-> EmptyObj]

CorruptFile == [kind |-> "corrupt", val |-> EmptyObj]

NullFile == [kind |-> "null", val |-> EmptyObj]

ObjectFile(v) == [kind |-> "object", val |-> v]

\* What a call gives back: a credential, null, or a raised exception.
NoneResult == [kind |-> "none", val |-> EmptyObj]

ThrowResult == [kind |-> "throw", val |-> EmptyObj]

CredResult(c) == [kind |-> "cred", val |-> c]

-----------------------------------------------------------------------------
(* The credential store (store.ts)                                         *)

loadTokens(legacy) ==
  IF legacy.kind = "object" THEN CredResult(legacy.val) ELSE NoneResult

\* The parsed multi-provider map; isNull when the file holds JSON null.
loadProviderTokens(multi, legacy) ==
  CASE multi.kind = "absent" ->
         LET l == loadTokens(legacy)
         IN  IF l.kind = "cred"
             THEN [isNull |-> FALSE,
                   map |-> [p \in {"codex"} |-> WithProvider(l.val, "codex")]]
             ELSE [isNull |-> FALSE, map |-> EmptyObj]
    [] multi.kind = "corrupt" -> [isNull |-> FALSE, map |-> EmptyObj]
    [] multi.kind = "null" -> [isNull |-> TRUE, map |-> EmptyObj]
    [] OTHER -> [isNull |-> FALSE, map |-> multi.val]

loadProviderToken(provider, multi, legacy) ==
  LET all == loadProviderTokens(multi, legacy)
  IN  IF all.isNull THEN ThrowResult
      ELSE IF provider \in DOMAIN all.map THEN CredResult(all.map[provider])
      ELSE NoneResult

\* The legacy mirror written by saveProviderTokens.
SaveLegacyMirrorAlways(provider, tokens, legacy) ==
  ObjectFile(JsonRoundTrip(tokens))

SaveLegacyMirror(provider, tokens, legacy) ==
  IF provider = "codex" THEN ObjectFile(JsonRoundTrip(tokens)) ELSE legacy

\* The entry saveProviderTokens puts into the map.
SavedEntryUntagged(provider, tokens) == JsonRoundTrip(tokens)

SavedEntry(provider, tokens) == JsonRoundTrip(WithProvider(tokens, provider))

\* existing[provider] = { ...tokens, provider }, then the map is written whole.
WrittenMapOwnEntry(existing, provider, tokens) ==
  ObjectFile([p \in {provider} |-> SavedEntry(provider, tokens)])

WrittenMap(existing, provider, tokens) ==
  ObjectFile([p \in DOMAIN existing \cup {provider} |->
                IF p = provider THEN SavedEntry(provider, tokens)
                ELSE existing[p]])

\* delete existing[provider], then the map is written whole.
ClearedMap(existing, provider) ==
  ObjectFile([p \in DOMAIN existing \ {provider} |-> existing[p]])

saveProviderTokensDropped(provider, tokens, multi, legacy) ==
  [threw |-> FALSE, multi |-> multi, legacy |-> legacy]

saveProviderTokens(provider, tokens, multi, legacy) ==
  LET existing == loadProviderTokens(multi, legacy)
  IN  IF existing.isNull
      THEN [threw |-> TRUE, multi |-> multi, legacy |-> legacy]
      ELSE [threw |-> FALSE,
            multi |-> WrittenMap(existing.map, provider, tokens),
            legacy |-> SaveLegacyMirror(provider, tokens, legacy)]

clearTokensKept(legacy) == legacy

clearTokens(legacy) == AbsentFile

clearProviderTokenSkipped(provider, multi, legacy) ==
  [threw |-> FALSE, multi |-> multi, legacy |-> legacy]

clearProviderToken(provider, multi, legacy) ==
  LET existing == loadProviderTokens(multi, legacy)
  IN  IF existing.isNull
      THEN [threw |-> TRUE, multi |-> multi, legacy |-> legacy]
      ELSE [threw |-> FALSE,
            multi |-> ClearedMap(existing.map, provider),
            legacy |-> IF provider = "codex" THEN clearTokens(legacy)
                       ELSE legacy]

-----------------------------------------------------------------------------
(* Token endpoint responses and getValidToken (oauth.ts)                   *)

\* The bodies a token endpoint may answer a 2xx with: refresh_token and
\* expires_in are optional.
FullResponse ==
  [access_token |-> "a2", token_type |-> "Bearer", refresh_token |-> "r2",
   expires_in |-> 60]

TokenResponses ==
  { [k \in {"access_token", "token_type"} \cup opt |-> FullResponse[k]] :
      opt \in SUBSET {"refresh_token", "expires_in"} }

\* The bodies a successful code exchange is answered with.
ExchangeResponses ==
  { r \in TokenResponses :
      ("refresh_token" \in DOMAIN r) = ("expires_in" \in DOMAIN r) }

\* response.expires_in ?? 3600
ExpiresInOfNoDefault(response) ==
  IF "expires_in" \in DOMAIN response THEN response.expires_in ELSE 0

ExpiresInOf(response) ==
  IF "expires_in" \in DOMAIN response THEN response.expires_in
  ELSE DefaultExpiresIn

toStoredTokens(response, provider, t) ==
  [access_token |-> Get(response, "access_token"),
   refresh_token |-> Get(response, "refresh_token"),
   id_token |-> Get(response, "id_token"),
   expires_at |-> t + ExpiresInOf(response) * 1000,
   token_type |-> Get(response, "token_type"),
   scope |-> Get(response, "scope"),
   obtained_at |-> t,
   provider |-> provider]

\* effective.expires_at && Date.now() > effective.expires_at - fiveMinutes
ExpiresSoonInverted(c, t) ==
  /\ "expires_at" \in DOMAIN c
  /\ c.expires_at # 0
  /\ t < c.expires_at - FiveMinutes

ExpiresSoon(c, t) ==
  /\ "expires_at" \in DOMAIN c
  /\ c.expires_at # 0
  /\ t > c.expires_at - FiveMinutes

\* !effective.refresh_token
NoRefreshTokenUnchecked(c) == FALSE

NoRefreshToken(c) == Falsy(c, "refresh_token")

\* tokens ?? (provider === 'codex' ? await loadTokens() : null)
EffectiveAnyProvider(provider, multi, legacy) ==
  LET tokens == loadProviderToken(provider, multi, legacy)
  IN  IF tokens.kind = "none" THEN loadTokens(legacy) ELSE tokens

Effective(provider, multi, legacy) ==
  LET tokens == loadProviderToken(provider, multi, legacy)
  IN  IF tokens.kind = "none" /\ provider = "codex" THEN loadTokens(legacy)
      ELSE tokens

Outcome(res, calls, refresh, multi, legacy) ==
  [res |-> res, calls |-> calls, refresh |-> refresh, multi |-> multi,
   legacy |-> legacy]

\* The refresh request fails (non-2xx or network error): refreshAccessToken
\* throws and getValidToken's catch returns null.
RefreshFailedRetried(provider, multi, legacy) ==
  Outcome(NoneResult, 2, "fail", multi, legacy)

RefreshFailed(provider, multi, legacy) ==
  Outcome(NoneResult, 1, "fail", multi, legacy)

\* The refresh request succeeds with `response`.
RefreshSucceededUntagged(response, provider, multi, legacy, t) ==
  LET refreshed == toStoredTokens(response, provider, t)
      saved == saveProviderTokens(provider, refreshed, multi, legacy)
  IN  Outcome(CredResult([refreshed EXCEPT !.provider = UNDEF]), 1, "ok",
              saved.multi, saved.legacy)

RefreshSucceeded(response, provider, multi, legacy, t) ==
  LET refreshed == toStoredTokens(response, provider, t)
      saved == saveProviderTokens(provider, refreshed, multi, legacy)
  IN  IF saved.threw THEN Outcome(NoneResult, 1, "ok", multi, legacy)
      ELSE Outcome(CredResult(refreshed), 1, "ok", saved.multi, saved.legacy)

\* Every outcome getValidToken(provider) can have at time t.
getValidToken(provider, multi, legacy, t) ==
  LET effective == Effective(provider, multi, legacy)
  IN  CASE effective.kind = "throw" ->
             {Outcome(ThrowResult, 0, "none", multi, legacy)}
        [] effective.kind = "none" ->
             {Outcome(NoneResult, 0, "none", multi, legacy)}
        [] OTHER ->
             IF ExpiresSoon(effective.val, t)
             THEN IF NoRefreshToken(effective.val)
                  THEN {Outcome(NoneResult, 0, "none", multi, legacy)}
                  ELSE {RefreshFailed(provider, multi, legacy)}
                       \cup {RefreshSucceeded(r, provider, multi, legacy, t) :
                               r \in TokenResponses}
             ELSE {Outcome(effective, 0, "none", multi, legacy)}

-----------------------------------------------------------------------------
(* authenticateOAuth (oauth.ts): one record per call                       *)

FlowIds == 1 .. MaxFlows

\* url.searchParams.get(...) of a parameter the request does not carry
NoParam == "null"

\* randomBytes(16).toString('hex'): a value of its own for every flow.
NonceNames == <<"n1", "n2", "n3", "n4">>

NonceOf(f) == NonceNames[f]

Nonces == {NonceOf(f) : f \in FlowIds}

\* The `state` parameter a callback may carry: some flow's state, a value no
\* flow generated, or none.
ReturnedStates == Nonces \cup {"forged", NoParam}


CallbackPath == "/auth/callback"

\* The `error` parameter: not carried, carried empty, carried with a text.
ErrorParams == {NoParam, "", "access_denied"}

\* The requests the listener may receive: any on the redirect path, and one
\* on another path.
CallbackRequests ==
  {[path |-> CallbackPath, state |-> s, error |-> e] :
     s \in ReturnedStates, e \in ErrorParams}
  \cup {[path |-> "/favicon.ico", state |-> NoParam, error |-> NoParam]}

\* promise: "none" before the call, "pending", "resolved", or the rejection.
Failures == {"oauth_error", "state_mismatch", "exchange_failed", "timeout",
             "raised"}

\* randomBytes(32).toString('base64url'): a value of its own for every flow.
VerifierNames == <<"v1", "v2", "v3", "v4">>

VerifierOf(f) == <<VerifierNames[f]>>

\* createHash('sha256').update(verifier).digest('base64url')
S256Identity(verifier) == verifier

S256(verifier) == <<"sha256">> \o verifier

\* PROVIDER_CONFIGS[provider].usePKCE
usePKCE(provider) == TRUE

\* The query parameters of the authorize URL that depend on the flow.
NoUrl == EmptyObj

buildAuthUrl(provider, challenge, state) ==
  [k \in {"response_type", "state"}
         \cup (IF usePKCE(provider)
               THEN {"code_challenge", "code_challenge_method"} ELSE {}) |->
     CASE k = "response_type" -> <<"code">>
       [] k = "state" -> <<state>>
       [] k = "code_challenge" -> challenge
       [] OTHER -> <<"S256">>]

\* The form body of the authorization-code exchange request.
ExchangeBody(provider, verifier) ==
  [k \in {"grant_type"}
         \cup (IF usePKCE(provider) THEN {"code_verifier"} ELSE {}) |->
     IF k = "grant_type" THEN <<"authorization_code">> ELSE verifier]

\* if (existing) return existing
ShortCircuitNever(existing) == FALSE

ShortCircuit(existing) == existing.kind = "cred"

\* bind: "none" before listen, "ok" once listening, "failed" on EADDRINUSE.
\* sent: the bodies of the exchange requests sent.  result: the credential
\* the promise resolved with.  cached: resolved by the short circuit.
IdleFlow ==
  [phase |-> "idle", provider |-> "codex", state |-> "n1",
   promise |-> "none", inflight |-> 0, tokenReqs |-> 0,
   wrote |-> FALSE, bind |-> "none", authUrl |-> NoUrl, opened |-> FALSE,
   sent |-> {}, result |-> EmptyObj, cached |-> FALSE]

\* resolve / reject settle the promise only once.
Settle(promise, outcome) == IF promise = "pending" THEN outcome ELSE promise

\* if (error)
ErrorGiven(error) == error # NoParam /\ error # ""

\* returnedState !== state
StateMismatchUnlessAbsent(returnedState, state) ==
  returnedState # NoParam /\ returnedState # state

StateMismatch(returnedState, state) == returnedState # state

\* The port of `provider` is bound by a listener of this machine.
PortBusy(provider) ==
  \E g \in FlowIds : flows[g].phase = "listening" /\ flows[g].provider = provider

-----------------------------------------------------------------------------
(* The built-in gateway (ProxyManager.startBuiltinProxy): values           *)

ReqIds == 1 .. MaxReqs

\* A string whose characters matter (a model name, a route pattern) is the
\* sequence of its characters.
Route(pattern, name, url, auth, apiKeyEnv) ==
  [pattern |-> pattern,
   backend |-> [name |-> name, url |-> url, auth |-> auth,
                apiKeyEnv |-> apiKeyEnv]]

\* DEFAULT_CONFIG.routes
DefaultRoutes ==
  << Route(<<"g", "p", "t", "-", "*">>, "codex",
           "https://chatgpt.com/backend-api/codex/responses", "codex-oauth",
           UNDEF),
     Route(<<"o", "p", "e", "n", "a", "i", "/", "*">>, "openai-api",
           "https://api.openai.com/v1", "api-key", "OPENAI_API_KEY"),
     Route(<<"c", "l", "a", "u", "d", "e", "-", "*">>, "claude",
           "https://api.anthropic.com/v1/messages", "claude-oauth", UNDEF),
     Route(<<"g", "e", "m", "i", "n", "i", "-", "*">>, "gemini",
           "https://generativelanguage.googleapis.com/v1beta/models",
           "gemini-oauth", UNDEF) >>

\* A proxy.yaml of the user's: a specific pattern before a catch-all whose
\* backend names no key variable.
CustomRoutes ==
  << Route(<<"g", "p", "t", "-", "4", ".", "*">>, "codex",
           "https://chatgpt.com/backend-api/codex/responses", "codex-oauth",
           UNDEF),
     Route(<<"*">>, "local", "http://localhost:11434/v1", "api-key", UNDEF) >>

RouteTables == {DefaultRoutes, CustomRoutes}

EnvNames == {"OPENAI_API_KEY"}

\* process.env[name]: unset, set to the empty string, or set to a key.
EnvValues == {UNDEF, "", "sk-1"}

\* new RegExp('^' + pattern.replace(/\*/g, '.*') + '$').test(model), for
\* patterns of literal characters, '*' and '.'.
RECURSIVE RegexTest(_, _)
RegexTest(pattern, model) ==
  IF pattern = <<>> THEN model = <<>>
  ELSE IF Head(pattern) = "*"
  THEN \/ RegexTest(Tail(pattern), model)
       \/ /\ model # <<>>
          /\ Head(model) # "\n"
          /\ RegexTest(pattern, Tail(model))
  ELSE /\ model # <<>>
       /\ \/ Head(pattern) = Head(model)
          \/ Head(pattern) = "." /\ Head(model) # "\n"
       /\ RegexTest(Tail(pattern), Tail(model))

\* config.routes.find(...): the index of the first matching route, 0 if none.
FindRoute(table, model) ==
  LET hits == {i \in 1 .. Len(table) : RegexTest(table[i].pattern, model)}
  IN  IF hits = {} THEN 0 ELSE CHOOSE i \in hits : \A j \in hits : i <= j

\* Objects: o with key k set to v, and with key k deleted.
SetKey(o, k, v) == [j \in DOMAIN o \cup {k} |-> IF j = k THEN v ELSE o[j]]

DelKey(o, k) == [j \in DOMAIN o \ {k} |-> o[j]]

Msg(role, content) == [role |-> role, content |-> content]

\* parsed.messages: an array of messages, or a value that is no array.
Array(items) == [isArray |-> TRUE, items |-> items]

NotAnArray == [isArray |-> FALSE, items |-> <<>>]

IsSystem(m) == m.role = "system"

NotSystem(m) == m.role # "system"

\* messages.find(m => m.role === 'system')
HasSystem(items) == \E i \in 1 .. Len(items) : IsSystem(items[i])

SystemContent(items) ==
  items[CHOOSE i \in 1 .. Len(items) :
          IsSystem(items[i]) /\ \A j \in 1 .. i - 1 : ~IsSystem(items[j])].content

Translated(body) == [threw |-> FALSE, body |-> body]

TranslationThrew(body) == [threw |-> TRUE, body |-> body]

\* Lines 199-214: the body sent to the Codex backend.
TranslateCodex(parsed) ==
  LET p1 == SetKey(parsed, "stream", TRUE)
      finish(o) ==
        SetKey(SetKey(o, "store", FALSE), "reasoning",
               IF "reasoning" \in DOMAIN o THEN o.reasoning
               ELSE [summary |-> "auto"])
  IN  IF Falsy(p1, "instructions") /\ "messages" \in DOMAIN p1
      THEN IF ~p1.messages.isArray THEN TranslationThrew(p1)
           ELSE LET items == p1.messages.items
                    p2 == IF HasSystem(items)
                          THEN SetKey(SetKey(p1, "instructions",
                                             SystemContent(items)),
                                      "input",
                                      Array(SelectSeq(items, NotSystem)))
                          ELSE SetKey(p1, "input", p1.messages)
                IN  Translated(finish(DelKey(p2, "messages")))
      ELSE Translated(finish(p1))

\* Lines 226-237: the body sent to the Claude backend.
TranslateClaude(parsed) ==
  IF "messages" \in DOMAIN parsed
  THEN IF ~parsed.messages.isArray THEN TranslationThrew(parsed)
       ELSE LET items == parsed.messages.items
                p1 == IF HasSystem(items)
                      THEN SetKey(parsed, "system", SystemContent(items))
                      ELSE parsed
                p2 == SetKey(p1, "messages",
                             Array(SelectSeq(items, NotSystem)))
            IN  Translated(
                  IF "max_tokens" \in DOMAIN p2 THEN p2
                  ELSE SetKey(p2, "max_tokens", 4096))
  ELSE Translated(parsed)

GeminiContent(m) ==
  [role |-> IF m.role = "assistant" THEN "model" ELSE "user",
   parts |-> <<[text |-> m.content]>>]

\* Lines 248-262: the body sent to the Gemini backend.
TranslateGemini(parsed) ==
  IF "messages" \in DOMAIN parsed
  THEN IF ~parsed.messages.isArray THEN TranslationThrew(parsed)
       ELSE LET items == parsed.messages.items
                kept == SelectSeq(items, NotSystem)
                p1 == SetKey(parsed, "contents",
                             [i \in 1 .. Len(kept) |-> GeminiContent(kept[i])])
                p2 == IF HasSystem(items)
                      THEN SetKey(p1, "systemInstruction",
                                  [parts |-> <<[text |-> SystemContent(items)]>>])
                      ELSE p1
                p3 == SetKey(p2, "generationConfig",
                             [maxOutputTokens |->
                                IF "max_tokens" \in DOMAIN parsed
                                THEN parsed.max_tokens ELSE 4096])
            IN  Translated(DelKey(DelKey(DelKey(p3, "messages"), "model"),
                                  "max_tokens"))
  ELSE Translated(parsed)

Translate(auth, parsed) ==
  CASE auth = "codex-oauth" -> TranslateCodex(parsed)
    [] auth = "claude-oauth" -> TranslateClaude(parsed)
    [] auth = "gemini-oauth" -> TranslateGemini(parsed)
    [] OTHER -> Translated(parsed)

\* The provider whose credential a scheme asks getValidToken for.
ProviderOfDefault(auth) == "codex"

ProviderOf(auth) ==
  CASE auth = "codex-oauth" -> "codex"
    [] auth = "claude-oauth" -> "claude"
    [] OTHER -> "gemini"

OAuthSchemes == {"codex-oauth", "claude-oauth", "gemini-oauth"}

BaseHeaders ==
  [k \in {"Content-Type", "User-Agent"} |->
     IF k = "Content-Type" THEN "application/json" ELSE "vibepity-proxy/0.1.0"]

\* The headers of the upstream request for a credential `token`.
AuthHeaders(auth, token) ==
  CASE auth = "claude-oauth" ->
         SetKey(SetKey(BaseHeaders, "x-api-key", token),
                "anthropic-version", "2024-01-01")
    [] OTHER -> SetKey(BaseHeaders, "Authorization", <<"Bearer ", token>>)

\* `${route.backend.url}/${model || 'gemini-2.5-flash'}:generateContent`
GeminiUrl(route, model) ==
  [base |-> route.backend.url,
   model |-> IF model = <<>>
             THEN <<"g", "e", "m", "i", "n", "i", "-", "2", ".", "5",
                    "-", "f", "l", "a", "s", "h">>
             ELSE model,
   suffix |-> ":generateContent"]

\* The matched route object as the handler has it before the fetch: the
\* gemini scheme sets route._overrideUrl = geminiUrl.
Prepared(route, model) ==
  IF route.backend.auth = "gemini-oauth"
  THEN SetKey(route, "_overrideUrl", GeminiUrl(route, model))
  ELSE route

\* route._overrideUrl ?? route.backend.url
UpstreamUrl(route, model) ==
  LET prepared == Prepared(route, model)
  IN  IF "_overrideUrl" \in DOMAIN prepared THEN prepared._overrideUrl
      ELSE [base |-> route.backend.url, model |-> <<>>, suffix |-> ""]

\* delete route._overrideUrl
ReleasedKept(route, model) == Prepared(route, model)

Released(route, model) == DelKey(Prepared(route, model), "_overrideUrl")

\* const apiKey = apiKeyEnv ? process.env[apiKeyEnv] : undefined
ApiKeyOf(backend, environment) ==
  IF backend.apiKeyEnv # UNDEF /\ backend.apiKeyEnv # ""
     /\ backend.apiKeyEnv \in DOMAIN environment
  THEN environment[backend.apiKeyEnv]
  ELSE UNDEF

\* !apiKey
ApiKeyMissingUnlessEmpty(apiKey) == apiKey = UNDEF

ApiKeyMissing(apiKey) == apiKey = UNDEF \/ apiKey = ""

\* The bodies of the gateway's own answers.
HealthBodyStarting == [status |-> "starting", version |-> "0.1.0-builtin"]

HealthBody == [status |-> "ok", version |-> "0.1.0-builtin"]

NoRouteBody(model) == [error |-> <<"No route for model: ", model>>]

LoginHint(auth) ==
  [error |->
     CASE auth = "codex-oauth" -> <<"Not authenticated. Run: vibepity onboard">>
       [] auth = "claude-oauth" ->
            <<"Claude not authenticated. Run: vibepity auth login claude">>
       [] OTHER ->
            <<"Gemini not authenticated. Run: vibepity auth login gemini">>]

ApiKeyNotSetBody(backend) ==
  [error |-> <<"API key not set: ", backend.apiKeyEnv>>]

ErrorBody(message) == [error |-> <<message>>]

\* What the caller has been answered: status 0 while no status line was sent.
NoAnswer == [status |-> 0, ctype |-> UNDEF, body |-> EmptyObj, ended |-> FALSE]

Answer(status, body) ==
  [status |-> status, ctype |-> "application/json", body |-> body,
   ended |-> TRUE]

NoRequestSent == [url |-> [base |-> UNDEF, model |-> <<>>, suffix |-> ""],
                  headers |-> EmptyObj, body |-> EmptyObj]

\* What the upstream fetch came to: nothing yet, a response (its status, its
\* content-type header, whether upstreamRes.body is a stream), or a rejection.
NoResponse ==
  [kind |-> "none", status |-> 0, ctype |-> UNDEF, hasBody |-> FALSE]

Response(status, ctype, hasBody) ==
  [kind |-> "response", status |-> status, ctype |-> ctype,
   hasBody |-> hasBody]

ConnectionFailed ==
  [kind |-> "failed", status |-> 0, ctype |-> UNDEF, hasBody |-> FALSE]

\* upstreamRes.headers.get('content-type') ?? 'application/json'
RelayedContentTypeFixed(ctype) == "application/json"

RelayedContentType(ctype) ==
  IF ctype = UNDEF THEN "application/json" ELSE ctype

\* chunks counts the reader.read() calls that gave a chunk, wrote the
\* res.write() calls; goneAt is the value of chunks when the caller closed
\* the connection, -1 while it is open.
NewRequest ==
  [pc |-> "new", url |-> "/", raw |-> "empty", parsed |-> EmptyObj,
   route |-> 0, lookup |-> "notyet", answer |-> NoAnswer,
   upstream |-> 0, sent |-> NoRequestSent, chunks |-> 0, raised |-> FALSE,
   resp |-> NoResponse, wrote |-> 0, goneAt |-> -1]

\* No GET /health has been answered since the gateway last handled another
\* event.
NoProbe == NoAnswer

-----------------------------------------------------------------------------
(* ProxyManager: values                                                    *)

\* waitForReady: timeoutMs, the abort of one probe, the sleep between probes.
ReadyTimeoutMs == 10000

ProbeAbortMs == 1000

ProbeIntervalMs == 500

\* Processes of the machine: a gateway an earlier run started, the child
\* startCliProxy spawns, the process the manager itself runs in.
NoPid == "none"

OldPid == "old"

ChildPid == "child"

SelfPid == "self"

\* Who listens on config.port: nobody, one of the processes above serving
\* the gateway, or a program that does not answer GET /health with 2xx.
PortFree == "free"

PortOther == "other"

\* fetch(`http://127.0.0.1:${port}/health`) resolves with res.ok.
HealthOk(port) == port \in {OldPid, ChildPid, SelfPid}

\* process.kill(pid, 0) does not throw.
isProcessAlive(pid, alive) == pid \in alive

ProxyStatusKeepsFile(m) ==
  LET pid == IF m.process # NoPid THEN m.process ELSE m.pidFile
      running == pid # NoPid /\ isProcessAlive(pid, m.alive)
  IN  [running |-> running, pidFile |-> m.pidFile]

\* status(): whether the process named by this.process or the pid file is
\* alive; the pid file is cleared when it names a process that is not.
ProxyStatus(m) ==
  LET pid == IF m.process # NoPid THEN m.process ELSE m.pidFile
      running == pid # NoPid /\ isProcessAlive(pid, m.alive)
  IN  [running |-> running,
       pidFile |-> IF ~running /\ pid # NoPid THEN NoPid ELSE m.pidFile]

\* config.port of DEFAULT_CONFIG.
ConfigPort == 8317

\* What a call of stop() or status() came to: no such call yet, stop()
\* returned, stop() ended the calling process, or status() returned
\* {running, pid, port}.
NoCall == [op |-> "none", running |-> FALSE, pid |-> NoPid, port |-> 0]

Stopped == [op |-> "stop", running |-> FALSE, pid |-> NoPid, port |-> 0]

StopKilled == [op |-> "killed", running |-> FALSE, pid |-> NoPid, port |-> 0]

\* The pid status() and stop() look at: this.process?.pid ?? loadPid().
TrackedPid(m) == IF m.process # NoPid THEN m.process ELSE m.pidFile

\* The ProxyStatus object status() returns.
Reported(m) ==
  LET pid == TrackedPid(m)
      running == pid # NoPid /\ isProcessAlive(pid, m.alive)
  IN  [op |-> "status", running |-> running,
       pid |-> IF running THEN pid ELSE NoPid,
       port |-> IF running THEN ConfigPort ELSE 0]

\* The manager before start() is called, on a machine where nothing runs.
\* how, spawned, bound, pidWrites, probes, probeOk, liveAtStart and elapsed
\* describe the start() call: what it did and how long it has waited; call
\* is the last call of stop() or status().
ManagerIdle ==
  [installed |-> FALSE, pidFile |-> NoPid, alive |-> {}, port |-> PortFree,
   process |-> NoPid, startedAt |-> FALSE, pc |-> "idle", how |-> "none",
   running |-> FALSE, liveAtStart |-> FALSE, spawned |-> 0, bound |-> FALSE,
   pidWrites |-> 0, probes |-> 0, probeOk |-> FALSE, elapsed |-> 0,
   error |-> "", call |-> NoCall]

GatewayIdle ==
  /\ routes = DefaultRoutes
  /\ env = [n \in EnvNames |-> UNDEF]
  /\ gwUp = TRUE
  /\ reqs = [r \in ReqIds |-> NewRequest]
  /\ probe = NoProbe
  /\ mgr = ManagerIdle

-----------------------------------------------------------------------------
(* Store operations as a caller issues them                                *)

\* Credentials a caller may hand to save.
InputCred(refresh, expires, tag) ==
  [access_token |-> "a1", refresh_token |-> refresh, id_token |-> UNDEF,
   expires_at |-> expires, token_type |-> "Bearer", scope |-> "openid",
   obtained_at |-> StartTime - Minute, provider |-> tag]

InputCreds ==
  { InputCred("r1", StartTime + 4 * Minute, UNDEF),
    InputCred(UNDEF, StartTime + 4 * Minute, "gemini"),
    InputCred("r1", StartTime + 5 * Minute, "codex"),
    InputCred(UNDEF, StartTime - Minute, UNDEF),
    InputCred(UNDEF, StartTime + 60 * Minute, "claude") }

\* What earlier runs may have left on disk.
InitialCreds ==
  { InputCred("r1", StartTime + 4 * Minute, UNDEF),
    InputCred(UNDEF, StartTime + 60 * Minute, UNDEF) }

InitialMultiFiles ==
  {AbsentFile, CorruptFile, NullFile, ObjectFile(EmptyObj)}
  \cup { ObjectFile([p \in {"claude"} |-> JsonRoundTrip(WithProvider(c, p))]) :
           c \in InitialCreds }

InitialLegacyFiles ==
  {AbsentFile, CorruptFile}
  \cup { ObjectFile(JsonRoundTrip(c)) : c \in InitialCreds }

\* A write to the store that is under way: the operation, the map it has
\* read (existing), the writers it has shared part of its run with (met) and
\* its place among the writes of providers.json (order, 0 before it writes).
WriterIds == 1 .. MaxWriters

IdleWriter ==
  [op |-> "none", p |-> "codex", arg |-> EmptyObj, pc |-> "idle",
   existing |-> EmptyObj, met |-> {}, order |-> 0]

NoWriters == [w \in WriterIds |-> IdleWriter]

NoOp ==
  [op |-> "init", p |-> "codex", arg |-> EmptyObj, res |-> NoneResult,
   calls |-> 0, refresh |-> "none", threw |-> FALSE,
   multiBefore |-> AbsentFile, legacyBefore |-> AbsentFile, at |-> StartTime]

StoreInit ==
  /\ now = StartTime
  /\ multiFile \in InitialMultiFiles
  /\ legacyFile \in InitialLegacyFiles
  /\ ops = 0
  /\ last = NoOp
  /\ writers = NoWriters
  /\ flows = [f \in FlowIds |-> IdleFlow]
  /\ authUp = TRUE
  /\ GatewayIdle

Tick ==
  /\ now < StartTime + MaxTicks * Minute
  /\ now' = now + Minute
  /\ UNCHANGED <<multiFile, legacyFile, opVars, authVars, gwVars>>

GetValid(p) ==
  /\ ops < MaxOps
  /\ \E o \in getValidToken(p, multiFile, legacyFile, now) :
       /\ multiFile' = o.multi
       /\ legacyFile' = o.legacy
       /\ last' = [op |-> "getValid", p |-> p, arg |-> EmptyObj,
                   res |-> o.res, calls |-> o.calls, refresh |-> o.refresh,
                   threw |-> o.res.kind = "throw",
                   multiBefore |-> multiFile, legacyBefore |-> legacyFile,
                   at |-> now]
  /\ ops' = ops + 1
  /\ UNCHANGED <<now, writers, authVars, gwVars>>

Save(p, c) ==
  /\ ops < MaxOps
  /\ LET s == saveProviderTokens(p, c, multiFile, legacyFile)
     IN  /\ multiFile' = s.multi
         /\ legacyFile' = s.legacy
         /\ last' = [op |-> "save", p |-> p, arg |-> c, res |-> NoneResult,
                     calls |-> 0, refresh |-> "none", threw |-> s.threw,
                     multiBefore |-> multiFile, legacyBefore |-> legacyFile,
                     at |-> now]
  /\ ops' = ops + 1
  /\ UNCHANGED <<now, writers, authVars, gwVars>>

Load(p) ==
  /\ ops < MaxOps
  /\ LET r == loadProviderToken(p, multiFile, legacyFile)
     IN  last' = [op |-> "load", p |-> p, arg |-> EmptyObj,
                  res |-> IF r.kind = "throw" THEN NoneResult ELSE r,
                  calls |-> 0, refresh |-> "none", threw |-> r.kind = "throw",
                  multiBefore |-> multiFile, legacyBefore |-> legacyFile,
                  at |-> now]
  /\ ops' = ops + 1
  /\ UNCHANGED <<now, multiFile, legacyFile, writers, authVars, gwVars>>

Clear(p) ==
  /\ ops < MaxOps
  /\ LET s == clearProviderToken(p, multiFile, legacyFile)
     IN  /\ multiFile' = s.multi
         /\ legacyFile' = s.legacy
         /\ last' = [op |-> "clear", p |-> p, arg |-> EmptyObj,
                     res |-> NoneResult, calls |-> 0, refresh |-> "none",
                     threw |-> s.threw,
                     multiBefore |-> multiFile, legacyBefore |-> legacyFile,
                     at |-> now]
  /\ ops' = ops + 1
  /\ UNCHANGED <<now, writers, authVars, gwVars>>

StoreNext ==
  \/ Tick
  \/ \E p \in Providers : GetValid(p)
  \/ \E p \in Providers, c \in InputCreds : Save(p, c)
  \/ \E p \in Providers : Load(p)
  \/ \E p \in Providers : Clear(p)

SpecStore == StoreInit /\ [][StoreNext]_vars

-----------------------------------------------------------------------------
(* Claims about the credential store and getValid                          *)

CredKeys ==
  {"access_token", "refresh_token", "id_token", "expires_at", "token_type",
   "scope", "obtained_at", "provider"}

Undefined(o, k) == k \notin DOMAIN o \/ (k \notin NumKeys /\ o[k] = UNDEF)

\* Reading key k of a and of b gives the same value.
FieldEq(a, b, k) ==
  \/ Undefined(a, k) /\ Undefined(b, k)
  \/ k \in DOMAIN a /\ k \in DOMAIN b /\ a[k] = b[k]

SameCred(a, b) == \A k \in CredKeys : FieldEq(a, b, k)

SameResult(r1, r2) ==
  /\ r1.kind = r2.kind
  /\ r1.kind = "cred" => SameCred(r1.val, r2.val)

\* The credential the store held for last.p when the last operation began:
\* its entry of the multi-provider file, else, for codex, the legacy file.
HasEntry(l) ==
  l.multiBefore.kind = "object" /\ l.p \in DOMAIN l.multiBefore.val

HasLegacyOnly(l) ==
  /\ l.p = "codex"
  /\ l.multiBefore.kind \in {"absent", "corrupt", "object"}
  /\ ~HasEntry(l)
  /\ l.legacyBefore.kind = "object"

Held(l) == IF HasEntry(l) THEN l.multiBefore.val[l.p] ELSE l.legacyBefore.val

InWindow(c, t) == "expires_at" \in DOMAIN c /\ t > c.expires_at - FiveMinutes

FilesUntouched == multiFile = last.multiBefore /\ legacyFile = last.legacyBefore

\* C6: when the stored credential for P expires more than 5 minutes after the
\* current time, getValid(P) returns that credential (the multi-provider entry
\* as stored; the legacy credential up to the provider tag), calls no token
\* endpoint and leaves both files unchanged.
C6_FreshIsReturnedUntouched ==
  (/\ last.op = "getValid"
   /\ HasEntry(last) \/ HasLegacyOnly(last)
   /\ "expires_at" \in DOMAIN Held(last)
   /\ Held(last).expires_at > last.at + FiveMinutes)
  => /\ last.res.kind = "cred"
     /\ HasEntry(last) => last.res.val = Held(last)
     /\ \A k \in CredKeys \ {"provider"} : FieldEq(last.res.val, Held(last), k)
     /\ last.calls = 0
     /\ FilesUntouched

C6_Witness ==
  /\ last.op = "getValid"
  /\ HasEntry(last)
  /\ Held(last).expires_at > last.at + FiveMinutes
  /\ last.res = CredResult(Held(last))
  /\ last.multiBefore.kind = "object"

C8_FailedRefreshGivesNone ==
  (/\ last.op = "getValid"
   /\ HasEntry(last) \/ HasLegacyOnly(last)
   /\ InWindow(Held(last), last.at)
   /\ ~Undefined(Held(last), "refresh_token")
   /\ last.refresh # "ok")
  => /\ last.refresh = "fail"
     /\ last.res = NoneResult
     /\ ~last.threw
     /\ last.calls = 1
     /\ FilesUntouched

C8_Witness ==
  /\ last.op = "getValid"
  /\ HasEntry(last)
  /\ InWindow(Held(last), last.at)
  /\ last.refresh = "fail"
  /\ last.calls = 1

\* The last operation was a getValid(P) made inside the window of the
\* credential then stored for P.
FirstCallInWindow ==
  /\ last.op = "getValid"
  /\ HasEntry(last) \/ HasLegacyOnly(last)
  /\ InWindow(Held(last), last.at)

\* C9 as stated: two getValid calls inside the window with no intervening
\* write by another operation return identical credentials.  The second call
\* is any outcome of getValid in a state the first call (and the passing of
\* time) has left.
C9_AsStated ==
  FirstCallInWindow
  => \A o \in getValidToken(last.p, multiFile, legacyFile, now) :
       SameResult(o.res, last.res)

\* C9 amended: the two calls return identical credentials, and the second
\* call sends no refresh request, when the first call found no refresh_token
\* (both return none) or its refresh succeeded with a credential that is
\* still 5 minutes or more from expiry at the second call.
C9_NoSpuriousRefresh ==
  (/\ FirstCallInWindow
   /\ \/ last.refresh = "none"
      \/ /\ last.refresh = "ok"
         /\ last.res.kind = "cred"
         /\ now <= last.res.val.expires_at - FiveMinutes)
  => \A o \in getValidToken(last.p, multiFile, legacyFile, now) :
       SameResult(o.res, last.res) /\ o.calls = 0

C9_Witness ==
  /\ FirstCallInWindow
  /\ last.refresh = "ok"
  /\ last.res.kind = "cred"
  /\ now <= last.res.val.expires_at - FiveMinutes
  /\ now > last.at
  /\ \E o \in getValidToken(last.p, multiFile, legacyFile, now) :
       o.res.kind = "cred"

\* C10: after save(P, c), load(P) returns a credential equal to c in every
\* field except the provider tag, which is P.
C10_SaveThenLoad ==
  (last.op = "save" /\ ~last.threw)
  => LET r == loadProviderToken(last.p, multiFile, legacyFile)
     IN  /\ r.kind = "cred"
         /\ \A k \in CredKeys \ {"provider"} : FieldEq(r.val, last.arg, k)
         /\ "provider" \in DOMAIN r.val
         /\ r.val.provider = last.p

C10_Witness ==
  /\ last.op = "save"
  /\ ~last.threw
  /\ last.arg.provider # last.p
  /\ last.multiBefore.kind = "absent"
  /\ last.legacyBefore.kind = "object"
  /\ loadProviderToken(last.p, multiFile, legacyFile).kind = "cred"

\* C11: load(provider) never raises and gives a credential or none; it gives
\* none whenever the multi-provider file is missing, unreadable, not JSON, or
\* JSON that is no provider map (null).
C11_LoadNeverRaises ==
  last.op = "load" =>
    /\ ~last.threw
    /\ last.res.kind \in {"cred", "none"}
    /\ last.multiBefore.kind \in {"absent", "corrupt", "null"}
         => last.res = NoneResult

\* What load(q) gives for the files as they are now, and as they were when
\* the last operation began.
LoadNow(q) == loadProviderToken(q, multiFile, legacyFile)

LoadBefore(q) == loadProviderToken(q, last.multiBefore, last.legacyBefore)

\* C12: save(P, c) leaves load(Q) as it was for every other provider Q, and
\* leaves the legacy file untouched unless P is the default provider.
C12_SaveTouchesOnlyItsEntry ==
  last.op = "save" =>
    /\ \A q \in Providers \ {last.p} : LoadNow(q) = LoadBefore(q)
    /\ last.p # DefaultProvider => legacyFile = last.legacyBefore

C12_Witness ==
  /\ last.op = "save"
  /\ ~last.threw
  /\ last.p = "claude"
  /\ last.multiBefore = AbsentFile
  /\ last.legacyBefore.kind = "object"
  /\ LoadNow("codex").kind = "cred"
  /\ LoadNow("claude").kind = "cred"
  /\ multiFile # last.multiBefore

\* load(p) gives none, and getValid(p) gives none without a network call.
NoneFor(p, multi, legacy, t) ==
  /\ loadProviderToken(p, multi, legacy) = NoneResult
  /\ \A o \in getValidToken(p, multi, legacy, t) :
       o.res = NoneResult /\ o.calls = 0

\* C13: a clear(P) that completes leaves load(P) and getValid(P) giving none
\* (for codex also when a legacy file existed) and leaves load(Q) of every
\* other provider as it was; and once load(P) and getValid(P) give none, they
\* keep giving none across every step that is not a save(P, .).
C13_ClearedStaysNone ==
  [][\A p \in Providers :
       /\ (Clear(p) /\ ~last'.threw) =>
            /\ NoneFor(p, multiFile', legacyFile', now')
            /\ \A q \in Providers \ {p} :
                 loadProviderToken(q, multiFile', legacyFile')
                   = loadProviderToken(q, multiFile, legacyFile)
       /\ (/\ NoneFor(p, multiFile, legacyFile, now)
           /\ ~ \E c \in InputCreds : Save(p, c))
            => NoneFor(p, multiFile', legacyFile', now')]_vars

C13_Witness ==
  /\ last.op = "clear"
  /\ last.p = DefaultProvider
  /\ ~last.threw
  /\ LoadBefore(DefaultProvider).kind = "cred"
  /\ last.multiBefore.kind = "object"
  /\ last.legacyBefore.kind = "object"
  /\ legacyFile = AbsentFile
  /\ NoneFor(DefaultProvider, multiFile, legacyFile, now)

\* What getValid(last.p) could have given had there been no legacy file.
WithoutLegacy ==
  getValidToken(last.p, last.multiBefore, AbsentFile, last.at)

\* C14: getValid(codex) with no codex entry in the multi-provider store and a
\* legacy credential that needs no refresh returns the legacy credential (up
\* to the provider tag) and writes neither file; with a codex entry in the
\* store, and for claude and gemini always, the result and the
\* multi-provider file are what they would be without a legacy file, and the
\* legacy file is left as it was.
C14_LegacyOnlyForDefault ==
  last.op = "getValid" =>
    /\ (HasLegacyOnly(last) /\ ~ExpiresSoon(Held(last), last.at)) =>
         /\ last.res.kind = "cred"
         /\ \A k \in CredKeys \ {"provider"} :
              FieldEq(last.res.val, last.legacyBefore.val, k)
         /\ last.calls = 0
         /\ FilesUntouched
    /\ (last.p # DefaultProvider \/ HasEntry(last)) =>
         /\ \E o \in WithoutLegacy :
              /\ o.res = last.res
              /\ o.calls = last.calls
              /\ o.multi = multiFile
         /\ last.p # DefaultProvider => legacyFile = last.legacyBefore

C14_Witness ==
  /\ last.op = "getValid"
  /\ HasLegacyOnly(last)
  /\ last.multiBefore.kind = "object"
  /\ ~ExpiresSoon(Held(last), last.at)
  /\ last.res.kind = "cred"
  /\ FilesUntouched

-----------------------------------------------------------------------------
(* The login flow                                                          *)

\* The providers logins are started for.
LoginProviders == {"codex", "gemini"}

\* The store at the start of a login: empty, or holding a credential for
\* codex that is valid for another hour and one for gemini that is due for
\* refresh.
AuthInit ==
  /\ now = StartTime
  /\ multiFile \in
       {AbsentFile,
        ObjectFile([p \in LoginProviders |->
          SavedEntry(p, IF p = "codex"
                        THEN InputCred(UNDEF, StartTime + 60 * Minute, UNDEF)
                        ELSE InputCred("r1", StartTime + 4 * Minute, UNDEF))])}
  /\ legacyFile = AbsentFile
  /\ ops = 0
  /\ last = NoOp
  /\ writers = NoWriters
  /\ flows = [f \in FlowIds |-> IdleFlow]
  /\ authUp = TRUE
  /\ GatewayIdle

\* authenticateOAuth(provider) up to server.listen, its callback (the
\* authorize URL is built and handed to the browser) and setTimeout.  Calls
\* are numbered in the order they are made.
StartLogin(f, provider) ==
  /\ authUp
  /\ flows[f].phase = "idle"
  /\ \A g \in FlowIds : g < f => flows[g].phase # "idle"
  /\ \E o \in getValidToken(provider, multiFile, legacyFile, now) :
       /\ multiFile' = o.multi
       /\ legacyFile' = o.legacy
       /\ CASE ShortCircuit(o.res) ->
                 /\ flows' = [flows EXCEPT ![f] =
                      [@ EXCEPT !.phase = "closed", !.provider = provider,
                                !.promise = "resolved", !.cached = TRUE,
                                !.result = o.res.val]]
                 /\ authUp' = authUp
            [] o.res.kind = "throw" ->
                 /\ flows' = [flows EXCEPT ![f] =
                      [@ EXCEPT !.phase = "closed", !.provider = provider,
                                !.promise = "raised"]]
                 /\ authUp' = authUp
            [] OTHER ->
                 IF PortBusy(provider)
                 THEN \* EADDRINUSE: the server emits 'error', which has no
                      \* listener: an uncaught exception ends the process.
                      /\ authUp' = FALSE
                      /\ flows' = [flows EXCEPT ![f] =
                           [@ EXCEPT !.phase = "closed",
                                     !.provider = provider,
                                     !.state = NonceOf(f),
                                     !.bind = "failed",
                                     !.promise = "pending"]]
                 ELSE /\ authUp' = authUp
                      /\ flows' = [flows EXCEPT ![f] =
                           [@ EXCEPT !.phase = "listening",
                                     !.provider = provider,
                                     !.state = NonceOf(f),
                                     !.bind = "ok",
                                     !.authUrl =
                                        buildAuthUrl(provider,
                                                     S256(VerifierOf(f)),
                                                     NonceOf(f)),
                                     !.opened = TRUE,
                                     !.promise = "pending"]]
  /\ UNCHANGED <<now, opVars, gwVars>>

\* The exchange requests all flows have sent.
RECURSIVE TokenRequestsUpTo(_, _)
TokenRequestsUpTo(fl, n) ==
  IF n = 0 THEN 0 ELSE fl[n].tokenReqs + TokenRequestsUpTo(fl, n - 1)

TokenRequests(fl) == TokenRequestsUpTo(fl, MaxFlows)

\* The request handler of the callback listener, up to its first await.
Callback(f, path, returnedState, error) ==
  /\ authUp
  /\ flows[f].phase = "listening"
  /\ flows' = [flows EXCEPT ![f] =
       IF path # CallbackPath
       THEN @
       ELSE IF ErrorGiven(error)
       THEN [@ EXCEPT !.phase = "closed",
                      !.promise = Settle(@, "oauth_error")]
       ELSE IF StateMismatch(returnedState, flows[f].state)
       THEN [@ EXCEPT !.phase = "closed",
                      !.promise = Settle(@, "state_mismatch")]
       ELSE [@ EXCEPT !.inflight = @ + 1, !.tokenReqs = @ + 1,
                      !.sent = @ \cup {ExchangeBody(flows[f].provider,
                                                    VerifierOf(f))}]]
  /\ TokenRequests(flows') <= MaxExchanges
  /\ UNCHANGED <<now, fileVars, opVars, authUp, gwVars>>

\* The token endpoint answers an exchange with a 2xx and `response`.
ExchangeSucceeds(f, response) ==
  /\ authUp
  /\ flows[f].inflight > 0
  /\ LET stored == toStoredTokens(response, flows[f].provider, now)
         saved == saveProviderTokens(flows[f].provider, stored, multiFile,
                                     legacyFile)
     IN  /\ multiFile' = saved.multi
         /\ legacyFile' = saved.legacy
         /\ flows' = [flows EXCEPT ![f] =
              [@ EXCEPT !.inflight = @ - 1, !.phase = "closed",
                        !.wrote = @ \/ ~saved.threw,
                        !.result = IF flows[f].promise = "pending"
                                      /\ ~saved.threw
                                   THEN stored ELSE @,
                        !.promise = Settle(@, IF saved.threw
                                              THEN "exchange_failed"
                                              ELSE "resolved")]]
  /\ UNCHANGED <<now, opVars, authUp, gwVars>>

\* The exchange fails: a non-2xx answer or a network error.
ExchangeFails(f) ==
  /\ authUp
  /\ flows[f].inflight > 0
  /\ flows' = [flows EXCEPT ![f] =
       [@ EXCEPT !.inflight = @ - 1, !.phase = "closed",
                 !.promise = Settle(@, "exchange_failed")]]
  /\ UNCHANGED <<now, fileVars, opVars, authUp, gwVars>>

\* The setTimeout callback; the timer is never cleared.
Timeout(f) ==
  /\ authUp
  /\ flows[f].bind = "ok"
  /\ flows' = [flows EXCEPT ![f] =
       [@ EXCEPT !.phase = "closed", !.promise = Settle(@, "timeout")]]
  /\ UNCHANGED <<now, fileVars, opVars, authUp, gwVars>>

AuthNext ==
  \/ \E f \in FlowIds, p \in LoginProviders : StartLogin(f, p)
  \/ \E f \in FlowIds, in \in CallbackRequests :
       Callback(f, in.path, in.state, in.error)
  \/ \E f \in FlowIds, r \in ExchangeResponses : ExchangeSucceeds(f, r)
  \/ \E f \in FlowIds : ExchangeFails(f)
  \/ \E f \in FlowIds : Timeout(f)

SpecAuth == AuthInit /\ [][AuthNext]_vars

\* C1: a callback on the redirect path that carries no `error` parameter
\* and whose `state` is absent or differs from the flow's state fails the
\* flow with the state-mismatch error, closes the listener, and sends no
\* request to the token endpoint.
C1_StateMismatchFailsWithoutExchange ==
  [][\A f \in FlowIds, s \in ReturnedStates :
       (s # flows[f].state /\ Callback(f, CallbackPath, s, NoParam))
       => /\ flows'[f].promise = "state_mismatch"
          /\ flows'[f].phase = "closed"
          /\ flows'[f].tokenReqs = flows[f].tokenReqs
          /\ flows'[f].inflight = flows[f].inflight]_vars

\* A state-mismatch failure reached while an exchange started by an earlier
\* callback is still in flight.
C1_Witness ==
  \E f \in FlowIds :
    /\ flows[f].promise = "state_mismatch"
    /\ flows[f].phase = "closed"
    /\ flows[f].inflight > 0

\* C2: a flow whose outcome reported to the caller is a failure has not
\* written a credential to the store (and, taken in every reachable state,
\* never writes one later).
C2_FailedFlowWritesNothing ==
  \A f \in FlowIds : flows[f].promise \in Failures => ~flows[f].wrote

\* C15: when getValid(provider) returns a credential, start(provider)
\* resolves with that credential and creates no flow: no listener is bound,
\* no authorize URL is built, the browser is not opened and no exchange
\* request is sent.  (The step is matched with the outcome of getValid that
\* it took by the files that outcome leaves.)
C15_CachedCredentialShortCircuits ==
  [][\A f \in FlowIds, p \in LoginProviders :
       StartLogin(f, p) =>
         \E o \in getValidToken(p, multiFile, legacyFile, now) :
           /\ multiFile' = o.multi
           /\ legacyFile' = o.legacy
           /\ o.res.kind = "cred" =>
                /\ flows'[f].promise = "resolved"
                /\ flows'[f].result = o.res.val
                /\ flows'[f].phase = "closed"
                /\ flows'[f].bind = "none"
                /\ flows'[f].authUrl = NoUrl
                /\ ~flows'[f].opened
                /\ flows'[f].tokenReqs = 0
                /\ flows'[f].sent = {}]_vars

C15_Witness ==
  \E f \in FlowIds :
    /\ flows[f].cached
    /\ flows[f].promise = "resolved"
    /\ flows[f].provider = "gemini"
    /\ flows[f].result.access_token = "a2"
    /\ flows[f].bind = "none"

\* C16: at most one listening flow per provider; a start(P) made while a
\* flow for P is listening fails to bind, is reported to its caller as a
\* failure, and leaves the process, and with it the first flow, running.
C16_SecondStartFailsAlone ==
  /\ \A f, g \in FlowIds :
       (/\ f # g
        /\ flows[f].phase = "listening"
        /\ flows[g].phase = "listening")
       => flows[f].provider # flows[g].provider
  /\ \A f \in FlowIds :
       flows[f].bind = "failed" => flows[f].promise \in Failures /\ authUp

\* The timer of every flow eventually fires.
SpecAuthFair == SpecAuth /\ \A f \in FlowIds : WF_vars(Timeout(f))

\* C17: every flow that has bound its listener eventually reaches a terminal
\* outcome (resolved, or rejected with a failure, the timeout among them).
C17_EveryFlowEnds ==
  \A f \in FlowIds :
    (flows[f].bind = "ok") ~> (flows[f].promise \in Failures \cup {"resolved"})

\* C18: the step on which a flow reports success after a code exchange was
\* answered with `response` follows an exchange request, resolves with the
\* normalized response (expires_at = now + expires_in * 1000, expires_in
\* 3600 when absent), has the listener closed, and leaves load(provider)
\* returning the credential resolved with.
C18_SavedBeforeReported ==
  [][\A f \in FlowIds, response \in ExchangeResponses :
       (/\ ExchangeSucceeds(f, response)
        /\ flows[f].promise = "pending"
        /\ flows'[f].promise = "resolved")
       => /\ flows[f].tokenReqs > 0
          /\ flows'[f].result.access_token = response.access_token
          /\ flows'[f].result.expires_at =
               now + (IF "expires_in" \in DOMAIN response
                      THEN response.expires_in ELSE 3600) * 1000
          /\ flows'[f].result.provider = flows[f].provider
          /\ flows'[f].phase = "closed"
          /\ flows'[f].wrote
          /\ SameResult(
               loadProviderToken(flows[f].provider, multiFile', legacyFile'),
               CredResult(flows'[f].result))]_vars

C18_Witness ==
  \E f \in FlowIds :
    /\ flows[f].promise = "resolved"
    /\ ~flows[f].cached
    /\ flows[f].wrote
    /\ flows[f].phase = "closed"
    /\ flows[f].result.expires_at = now + 3600 * 1000
    /\ SameResult(loadProviderToken(flows[f].provider, multiFile, legacyFile),
                  CredResult(flows[f].result))

\* C19: the authorize URL of a flow carries the S256 challenge of the flow's
\* verifier and the flow's state, and in no parameter the verifier; every
\* exchange request of the flow carries the flow's verifier, and no URL or
\* request of another flow does; state and challenge differ between flows.
C19_VerifierStaysInItsFlow ==
  \A f \in FlowIds :
    flows[f].bind = "ok" =>
      /\ flows[f].authUrl.code_challenge = <<"sha256">> \o VerifierOf(f)
      /\ flows[f].authUrl.code_challenge_method = <<"S256">>
      /\ flows[f].authUrl.state = <<flows[f].state>>
      /\ \A b \in flows[f].sent : b.code_verifier = VerifierOf(f)
      /\ \A g \in FlowIds :
           /\ \A k \in DOMAIN flows[g].authUrl :
                flows[g].authUrl[k] # VerifierOf(f)
           /\ g # f => \A b \in flows[g].sent : b.code_verifier # VerifierOf(f)
           /\ (g # f /\ flows[g].bind = "ok") =>
                /\ flows[g].state # flows[f].state
                /\ flows[g].authUrl.code_challenge
                     # flows[f].authUrl.code_challenge

C19_Witness ==
  \E f, g \in FlowIds :
    /\ f # g
    /\ flows[f].bind = "ok"
    /\ flows[g].bind = "ok"
    /\ flows[f].sent # {}
    /\ flows[g].sent # {}

-----------------------------------------------------------------------------
(* The built-in gateway: the request handler                               *)

Gpt == <<"g", "p", "t", "-", "5">>

OpenAi == <<"o", "p", "e", "n", "a", "i", "/", "x">>

Claude == <<"c", "l", "a", "u", "d", "e", "-", "4">>

Gemini == <<"g", "e", "m", "i", "n", "i", "-", "2">>

Unknown == <<"u", "n", "k", "n", "o", "w", "n">>

Gpt41 == <<"g", "p", "t", "-", "4", ".", "1">>

Gpt4o == <<"g", "p", "t", "-", "4", "o">>

Conversation ==
  <<Msg("system", "S"), Msg("user", "U"), Msg("assistant", "A")>>

Plain == <<Msg("user", "U")>>

Body(model, messages) == [model |-> model, messages |-> messages]

\* The JSON objects a caller may send.
RequestBodies ==
  { Body(Gpt, Array(Conversation)), Body(Gpt, Array(Plain)),
    Body(Gpt, NotAnArray), Body(Claude, Array(Conversation)),
    SetKey(Body(Claude, Array(Plain)), "max_tokens", 100),
    Body(Gemini, Array(Conversation)), [model |-> Gemini],
    Body(OpenAi, Array(Plain)), Body(Unknown, Array(Plain)),
    Body(Gpt41, Array(Plain)), Body(Gpt4o, Array(Plain)),
    [messages |-> Array(Plain)],
    SetKey(Body(Gpt, Array(Conversation)), "instructions", "I"),
    [model |-> Claude] }

ChatUrl == "/v1/chat/completions"

\* A request: its url and its body, which is empty, text that is no JSON,
\* the JSON value null, or a JSON object.
RequestInputs ==
  {[url |-> "/health", raw |-> "empty", parsed |-> EmptyObj]}
  \cup {[url |-> ChatUrl, raw |-> k, parsed |-> EmptyObj] :
          k \in {"empty", "text", "null"}}
  \cup {[url |-> ChatUrl, raw |-> "object", parsed |-> b] :
          b \in RequestBodies}

\* (parsed.model as string) ?? ''
ModelOf(parsed) == IF "model" \in DOMAIN parsed THEN parsed.model ELSE <<>>

UpstreamStatuses == {200, 429, 503}

UpstreamContentTypes == {"text/event-stream", "application/json", UNDEF}

\* What a backend may answer: a stream of events, a 2xx without content-type
\* and without body, a 4xx, a 5xx.
UpstreamResponses ==
  { Response(200, "text/event-stream", TRUE), Response(200, UNDEF, FALSE),
    Response(429, "application/json", FALSE), Response(503, UNDEF, FALSE) }

\* The access token each provider's stored credential holds.
AccessTokens ==
  [p \in Providers |->
     CASE p = "codex" -> "a1-codex"
       [] p = "claude" -> "a1-claude"
       [] OTHER -> "a1-gemini"]

StoredCred(p, refresh, expires) ==
  SavedEntry(p, [InputCred(refresh, expires, UNDEF)
                   EXCEPT !.access_token = AccessTokens[p]])

\* The stores a gateway may run against: empty; a credential valid for an
\* hour for every provider; a claude credential due for refresh beside a
\* gemini credential valid for an hour; a gemini credential due for refresh
\* without refresh_token beside a legacy codex credential; a providers.json
\* holding null.
GatewayStores ==
  { <<AbsentFile, AbsentFile>>,
    <<ObjectFile([p \in Providers |->
        StoredCred(p, "r1", StartTime + 60 * Minute)]),
      AbsentFile>>,
    <<ObjectFile([p \in {"claude", "gemini"} |->
        StoredCred(p, "r1",
                   StartTime + (IF p = "claude" THEN 4 ELSE 60) * Minute)]),
      AbsentFile>>,
    <<ObjectFile([p \in {"gemini"} |->
        StoredCred(p, UNDEF, StartTime + 4 * Minute)]),
      ObjectFile(JsonRoundTrip(
        InputCred(UNDEF, StartTime + 60 * Minute, UNDEF)))>>,
    <<NullFile, AbsentFile>> }

GatewayInit ==
  /\ now = StartTime
  /\ \E st \in GatewayStores : multiFile = st[1] /\ legacyFile = st[2]
  /\ ops = 0
  /\ last = NoOp
  /\ writers = NoWriters
  /\ flows = [f \in FlowIds |-> IdleFlow]
  /\ authUp = TRUE
  /\ routes \in RouteTables
  /\ env \in [EnvNames -> EnvValues]
  \* api-key routes never read the store: the environment varies against
  \* the empty store only.
  /\ (\E n \in EnvNames : env[n] # UNDEF) => multiFile = AbsentFile
  /\ gwUp = TRUE
  /\ reqs = [r \in ReqIds |-> NewRequest]
  /\ probe = NoProbe
  /\ mgr = ManagerIdle

\* catch (e): res.writeHead(502); res.end(error) before any status was sent.
Failed500(q, message) ==
  [q EXCEPT !.pc = "done", !.raised = TRUE,
            !.answer = Answer(500, ErrorBody(message))]

Failed502(q, message) ==
  [q EXCEPT !.pc = "done", !.raised = TRUE,
            !.answer = Answer(502, ErrorBody(message))]

\* fetch(upstreamUrl, {method: 'POST', headers, body}) is issued.
Forwarded(q, route, token, body) ==
  [q EXCEPT !.pc = "fetching", !.upstream = @ + 1,
            !.sent = [url |-> UpstreamUrl(route, ModelOf(q.parsed)),
                      headers |-> AuthHeaders(route.backend.auth, token),
                      body |-> body]]

\* config.routes after a step of the handler of a request: a handler that
\* reached the fetch has set, read and deleted _overrideUrl on its route.
RoutesAfter(table, before, after) ==
  IF after.upstream > before.upstream
  THEN [table EXCEPT ![after.route] = Released(@, ModelOf(after.parsed))]
  ELSE table

\* The handler from the arrival of a request to its first await after the
\* body was read: /health, parsing, routing and the api-key scheme.  Requests
\* are numbered in the order of their arrival.
Receive(r, in) ==
  /\ gwUp
  /\ reqs[r].pc = "new"
  /\ \A j \in 1 .. r - 1 : reqs[j].pc # "new"
  /\ LET q == [reqs[r] EXCEPT !.url = in.url, !.raw = in.raw,
                              !.parsed = in.parsed]
         i == FindRoute(routes, ModelOf(in.parsed))
         apiKey == ApiKeyOf(routes[i].backend, env)
     IN  reqs' = [reqs EXCEPT ![r] =
           IF in.url = "/health"
           THEN [q EXCEPT !.pc = "done", !.answer = Answer(200, HealthBody)]
           ELSE IF in.raw = "null"
           THEN Failed502(q, "Cannot read properties of null")
           ELSE IF i = 0
           THEN [q EXCEPT !.pc = "done",
                          !.answer = Answer(400, NoRouteBody(ModelOf(in.parsed)))]
           ELSE IF routes[i].backend.auth \in OAuthSchemes
           THEN [q EXCEPT !.pc = "token", !.route = i]
           ELSE IF ApiKeyMissing(apiKey)
           THEN [q EXCEPT !.pc = "done", !.route = i, !.lookup = "none",
                          !.answer = Answer(401, ApiKeyNotSetBody(routes[i].backend))]
           ELSE Forwarded([q EXCEPT !.route = i, !.lookup = "cred"],
                          routes[i], apiKey, in.parsed)]
  /\ routes' = RoutesAfter(routes, reqs[r], reqs'[r])
  /\ UNCHANGED <<now, fileVars, opVars, authVars, env, gwUp, mgr>>
  /\ probe' = NoProbe

\* await getValidToken(provider) returns; the body is translated and the
\* upstream fetch is issued.
TokenReady(r) ==
  /\ gwUp
  /\ reqs[r].pc = "token"
  /\ LET q == reqs[r]
         route == routes[q.route]
         auth == route.backend.auth
     IN  \E o \in getValidToken(ProviderOf(auth), multiFile, legacyFile, now) :
           /\ multiFile' = o.multi
           /\ legacyFile' = o.legacy
           /\ reqs' = [reqs EXCEPT ![r] =
                CASE o.res.kind = "none" ->
                       [q EXCEPT !.pc = "done", !.lookup = "none",
                                 !.answer = Answer(401, LoginHint(auth))]
                  [] o.res.kind = "throw" ->
                       Failed502([q EXCEPT !.lookup = "raised"],
                                 "Cannot read properties of null")
                  [] OTHER ->
                       LET tr == Translate(auth, q.parsed)
                       IN  IF tr.threw
                           THEN Failed502([q EXCEPT !.lookup = "cred"],
                                          "messages.find is not a function")
                           ELSE Forwarded([q EXCEPT !.lookup = "cred"], route,
                                          Get(o.res.val, "access_token"),
                                          tr.body)]
  /\ routes' = RoutesAfter(routes, reqs[r], reqs'[r])
  /\ UNCHANGED <<now, opVars, authVars, env, gwUp, mgr>>
  /\ probe' = NoProbe

\* fetch resolves: the status line and content-type are relayed.
UpstreamResponds(r, status, ctype, hasBody) ==
  /\ gwUp
  /\ reqs[r].pc = "fetching"
  /\ reqs' = [reqs EXCEPT ![r] =
       [@ EXCEPT !.pc = IF hasBody THEN "relaying" ELSE "done",
                 !.resp = Response(status, ctype, hasBody),
                 !.answer = [status |-> status,
                             ctype |-> RelayedContentType(ctype),
                             body |-> EmptyObj, ended |-> ~hasBody]]]
  /\ UNCHANGED <<now, fileVars, opVars, authVars, routes, env, gwUp, mgr>>
  /\ probe' = NoProbe

\* fetch rejects: the connection to the backend failed.
UpstreamFails(r) ==
  /\ gwUp
  /\ reqs[r].pc = "fetching"
  /\ reqs' = [reqs EXCEPT ![r] =
       Failed502([@ EXCEPT !.resp = ConnectionFailed], "fetch failed")]
  /\ UNCHANGED <<now, fileVars, opVars, authVars, routes, env, gwUp, mgr>>
  /\ probe' = NoProbe

\* pump: one chunk read from upstream and written to the caller.
RelayChunk(r) ==
  /\ gwUp
  /\ reqs[r].pc = "relaying"
  /\ reqs[r].chunks < MaxChunks
  /\ reqs' = [reqs EXCEPT ![r] = [@ EXCEPT !.chunks = @ + 1, !.wrote = @ + 1]]
  /\ UNCHANGED <<now, fileVars, opVars, authVars, routes, env, gwUp, mgr>>
  /\ probe' = NoProbe

\* pump: the upstream body is done; res.end().
RelayEnd(r) ==
  /\ gwUp
  /\ reqs[r].pc = "relaying"
  /\ reqs' = [reqs EXCEPT ![r] =
       [@ EXCEPT !.pc = "done", !.answer = [@ EXCEPT !.ended = TRUE]]]
  /\ UNCHANGED <<now, fileVars, opVars, authVars, routes, env, gwUp, mgr>>
  /\ probe' = NoProbe

\* pump: reader.read() rejects after the status line was relayed.  The catch
\* calls res.writeHead(502), which throws ERR_HTTP_HEADERS_SENT out of the
\* async handler: an unhandled rejection, which ends the process or only
\* warns, as the runtime is set up.  The response is never ended.
RelayError(r, fatal) ==
  /\ gwUp
  /\ reqs[r].pc = "relaying"
  /\ reqs' = [reqs EXCEPT ![r] = [@ EXCEPT !.pc = "abandoned", !.raised = TRUE]]
  /\ gwUp' = ~fatal
  /\ UNCHANGED <<now, fileVars, opVars, authVars, routes, env, mgr>>
  /\ probe' = NoProbe

\* The caller closes its connection while the body is relayed.  The handler
\* listens for no 'close' event and res.write() on a closed connection does
\* not throw: the pump goes on.
CallerDisconnects(r) ==
  /\ gwUp
  /\ reqs[r].pc = "relaying"
  /\ reqs[r].goneAt = -1
  /\ reqs' = [reqs EXCEPT ![r] = [@ EXCEPT !.goneAt = reqs[r].chunks]]
  /\ UNCHANGED <<now, fileVars, opVars, authVars, routes, env, gwUp, mgr>>
  /\ probe' = NoProbe

\* A request is between its arrival and the end of its handler.
InFlight(q) == q.pc \in {"token", "fetching", "relaying"}

\* GET /health arrives: lines 152-156 answer it before the handler awaits.
HealthProbe ==
  /\ gwUp
  /\ probe' = Answer(200, HealthBody)
  /\ UNCHANGED <<now, fileVars, opVars, authVars, routes, env, gwUp, reqs, mgr>>

GatewayNext ==
  \/ \E r \in ReqIds, in \in RequestInputs : Receive(r, in)
  \/ \E r \in ReqIds : TokenReady(r)
  \/ \E r \in ReqIds, u \in UpstreamResponses :
        UpstreamResponds(r, u.status, u.ctype, u.hasBody)
  \/ \E r \in ReqIds : CallerDisconnects(r)
  \/ HealthProbe
  \/ \E r \in ReqIds : UpstreamFails(r)
  \/ \E r \in ReqIds : RelayChunk(r)
  \/ \E r \in ReqIds : RelayEnd(r)
  \/ \E r \in ReqIds, fatal \in BOOLEAN : RelayError(r, fatal)

SpecGateway == GatewayInit /\ [][GatewayNext]_vars

-----------------------------------------------------------------------------
(* Claims about the gateway                                                *)

\* The request was taken up by the handler on a path other than /health.
Handled(q) == q.pc # "new" /\ q.url # "/health"

\* The route the handler matched for the request, if any.
Matched(q) == q.route # 0

\* The api-key route names a variable the environment leaves unset or empty.
KeyUnavailable(q) ==
  /\ Matched(q)
  /\ routes[q.route].backend.auth = "api-key"
  /\ routes[q.route].backend.apiKeyEnv \in EnvNames
  /\ env[routes[q.route].backend.apiKeyEnv] \in {UNDEF, ""}

\* getValidToken returned none for the provider of the matched OAuth route.
TokenUnavailable(q) ==
  /\ Matched(q)
  /\ routes[q.route].backend.auth \in OAuthSchemes
  /\ q.lookup = "none"

\* C3: when the credential of the matched route is unavailable (getValidToken
\* returned none for an OAuth route, or the variable named by an api-key
\* route is unset or empty) the answer is a complete 401 whose body carries
\* the login hint, respectively names the variable, and no upstream request
\* was made.
C3_MissingCredentialGives401 ==
  \A r \in ReqIds :
    LET q == reqs[r]
    IN  /\ TokenUnavailable(q) =>
             /\ q.pc = "done"
             /\ q.answer.status = 401
             /\ q.answer.ended
             /\ q.answer.body = LoginHint(routes[q.route].backend.auth)
             /\ q.upstream = 0
        /\ KeyUnavailable(q) =>
             /\ q.pc = "done"
             /\ q.answer.status = 401
             /\ q.answer.ended
             /\ q.answer.body =
                  [error |-> <<"API key not set: ",
                               routes[q.route].backend.apiKeyEnv>>]
             /\ q.upstream = 0

C3_Witness ==
  \E r \in ReqIds :
    /\ TokenUnavailable(reqs[r])
    /\ reqs[r].answer.status = 401
    /\ reqs[r].upstream = 0

\* C4: every handled request whose model (the empty name when the body has
\* none) matches no pattern of the route table is answered 400 with a body
\* naming the model, without a credential lookup and without an upstream
\* request.
C4_NoRouteGives400 ==
  \A r \in ReqIds :
    LET q == reqs[r]
    IN  (Handled(q) /\ FindRoute(routes, ModelOf(q.parsed)) = 0) =>
          /\ q.answer.status = 400
          /\ q.answer.body = NoRouteBody(ModelOf(q.parsed))
          /\ q.lookup = "notyet"
          /\ q.upstream = 0

\* C5: a request during whose translation or forwarding an exception was
\* raised is answered 502, and the gateway is still up.
C5_ExceptionGives502AndStaysUp ==
  \A r \in ReqIds :
    reqs[r].raised => reqs[r].answer.status = 502 /\ gwUp

\* A glob pattern matches the whole of a name: '*' stands for any run of
\* characters, every other character for itself.
RECURSIVE GlobMatch(_, _)
GlobMatch(pattern, name) ==
  IF pattern = <<>> THEN name = <<>>
  ELSE IF Head(pattern) = "*"
  THEN \/ GlobMatch(Tail(pattern), name)
       \/ name # <<>> /\ GlobMatch(pattern, Tail(name))
  ELSE /\ name # <<>>
       /\ Head(pattern) = Head(name)
       /\ GlobMatch(Tail(pattern), Tail(name))

\* C20: the route used for a request is the first of the table, in order,
\* whose glob pattern matches the whole model name (none when no pattern
\* matches), and an upstream request goes to that route's backend.
C20_FirstGlobMatchWins ==
  \A r \in ReqIds :
    LET q == reqs[r]
        model == ModelOf(q.parsed)
        hits == {i \in 1 .. Len(routes) : GlobMatch(routes[i].pattern, model)}
    IN  (Handled(q) /\ q.raw # "null") =>
          /\ hits = {} => q.route = 0
          /\ hits # {} =>
               /\ q.route \in hits
               /\ \A j \in hits : q.route <= j
               /\ q.upstream > 0 =>
                    q.sent.url.base = routes[q.route].backend.url

-----------------------------------------------------------------------------
(* The credential an upstream request carries                              *)

\* The credential an upstream request's headers carry.
SentToken(headers) ==
  IF "x-api-key" \in DOMAIN headers THEN headers["x-api-key"]
  ELSE headers["Authorization"][2]

\* The provider each OAuth scheme stands for.
SchemeProvider ==
  [a \in OAuthSchemes |->
     CASE a = "codex-oauth" -> "codex"
       [] a = "claude-oauth" -> "claude"
       [] OTHER -> "gemini"]

\* The access token the store holds for a provider: the one getValidToken
\* hands out once it has returned, refreshed and saved or as stored.
HeldToken(provider, multi, legacy) ==
  Get(Effective(provider, multi, legacy).val, "access_token")

Holds(provider, multi, legacy) ==
  /\ ~loadProviderTokens(multi, legacy).isNull
  /\ Effective(provider, multi, legacy).kind = "cred"

\* The upstream request of r is issued in this step.
Forwards(r) == reqs'[r].upstream = reqs[r].upstream + 1

\* C21: every upstream request carries the credential of the matched
\* route's scheme as getValidToken returned it for that request: the codex,
\* claude or gemini provider's access token for the OAuth schemes (as
\* x-api-key for claude, as Bearer otherwise), the value of the named
\* environment variable for api-key; it never carries another provider's
\* access token, and after a refresh it carries the token the refresh
\* response gave.
C21_CredentialOfTheScheme ==
  [][\A r \in ReqIds :
       Forwards(r) =>
         LET backend == routes[reqs'[r].route].backend
             headers == reqs'[r].sent.headers
         IN  IF backend.auth = "api-key"
             THEN /\ headers["Authorization"] =
                       <<"Bearer ", env[backend.apiKeyEnv]>>
                  /\ "x-api-key" \notin DOMAIN headers
             ELSE LET provider == SchemeProvider[backend.auth]
                  IN  /\ Holds(provider, multiFile', legacyFile')
                      /\ SentToken(headers) =
                           HeldToken(provider, multiFile', legacyFile')
                      /\ ("x-api-key" \in DOMAIN headers)
                           = (backend.auth = "claude-oauth")
                      /\ ("Authorization" \in DOMAIN headers)
                           = (backend.auth # "claude-oauth")
                      /\ "Authorization" \in DOMAIN headers =>
                           headers["Authorization"][1] = "Bearer "
                      /\ \A p \in Providers \ {provider} :
                           Holds(p, multiFile', legacyFile') =>
                             SentToken(headers) #
                               HeldToken(p, multiFile', legacyFile')
                      /\ multiFile' # multiFile =>
                           SentToken(headers) = FullResponse.access_token]_vars

\* A claude request went upstream with the token a refresh had just
\* obtained, while the store holds another provider's credential.
C21_Witness ==
  \E r \in ReqIds :
    /\ reqs[r].upstream = 1
    /\ routes[reqs[r].route].backend.auth = "claude-oauth"
    /\ reqs[r].sent.headers["x-api-key"] = FullResponse.access_token
    /\ Holds("gemini", multiFile, legacyFile)

-----------------------------------------------------------------------------
(* Translation, relay and error answers of the gateway                     *)

\* The request went upstream through a route of the scheme `auth`.
SentThrough(q, auth) ==
  q.upstream = 1 /\ routes[q.route].backend.auth = auth

\* The caller's body holds a messages array.
HasMessages(parsed) ==
  "messages" \in DOMAIN parsed /\ parsed.messages.isArray

\* C22: the body forwarded to a codex-oauth backend for a request that holds
\* a messages array has stream true and store false, holds `input` and no
\* `messages`; with a system message its content is the top-level
\* `instructions` and `input` is the other messages in their order, without
\* one `input` is the messages array as it came.
C22_CodexBodyTranslated ==
  \A r \in ReqIds :
    LET q == reqs[r]
        body == q.sent.body
        items == q.parsed.messages.items
    IN  (SentThrough(q, "codex-oauth") /\ HasMessages(q.parsed)) =>
          /\ body.stream = TRUE
          /\ body.store = FALSE
          /\ "messages" \notin DOMAIN body
          /\ "input" \in DOMAIN body
          /\ IF HasSystem(items)
             THEN /\ body.instructions = SystemContent(items)
                  /\ body.input = Array(SelectSeq(items, NotSystem))
             ELSE body.input = Array(items)

\* C23: a request forwarded to a claude-oauth backend has the x-api-key
\* header and anthropic-version 2024-01-01; its body has `system` set from
\* the system message when there is one, its `messages` are the caller's
\* without the system messages and in their order, and max_tokens is the
\* caller's value, 4096 when the caller gave none.
C23_ClaudeRequestTranslated ==
  \A r \in ReqIds :
    LET q == reqs[r]
        body == q.sent.body
        headers == q.sent.headers
        items == q.parsed.messages.items
    IN  SentThrough(q, "claude-oauth") =>
          /\ "x-api-key" \in DOMAIN headers
          /\ "anthropic-version" \in DOMAIN headers
          /\ headers["anthropic-version"] = "2024-01-01"
          /\ HasMessages(q.parsed) =>
               /\ HasSystem(items) => body.system = SystemContent(items)
               /\ body.messages = Array(SelectSeq(items, NotSystem))
          /\ "max_tokens" \in DOMAIN body
          /\ body.max_tokens = IF "max_tokens" \in DOMAIN q.parsed
                               THEN q.parsed.max_tokens ELSE 4096

\* C24 as the specification states it: the answer to the caller has the
\* status and the content-type of the upstream response.
C24_SameStatusAndContentType ==
  \A r \in ReqIds :
    reqs[r].resp.kind = "response" =>
      /\ reqs[r].answer.status = reqs[r].resp.status
      /\ reqs[r].answer.ctype = reqs[r].resp.ctype

\* C24: once the upstream response is received, the answer to the caller has
\* its status, whatever it is, and its content-type, application/json when
\* the upstream response names none; every chunk read from the upstream body
\* has been written to the caller, and the answer is ended when the handler
\* is done.
C24_ResponseRelayed ==
  \A r \in ReqIds :
    LET q == reqs[r]
    IN  q.resp.kind = "response" =>
          /\ q.answer.status = q.resp.status
          /\ q.answer.ctype = IF q.resp.ctype = UNDEF THEN "application/json"
                              ELSE q.resp.ctype
          /\ q.wrote = q.chunks
          /\ ~q.resp.hasBody => q.chunks = 0 /\ q.answer.ended
          /\ q.pc = "done" => q.answer.ended

\* A streamed response was relayed to its end, chunk by chunk.
C24_Witness ==
  \E r \in ReqIds :
    /\ reqs[r].resp = Response(200, "text/event-stream", TRUE)
    /\ reqs[r].pc = "done"
    /\ reqs[r].wrote = MaxChunks
    /\ reqs[r].answer.ctype = "text/event-stream"

\* The upstream fetch of r comes to its end in this step.
FetchEnds(r) == reqs[r].pc = "fetching" /\ reqs'[r].pc # "fetching"

\* C25 as the specification states it: a 5xx answer of the backend and a
\* failed connection are both answered 502.
C25_UpstreamErrorGives502 ==
  [][\A r \in ReqIds :
       (/\ FetchEnds(r)
        /\ \/ reqs'[r].resp.kind = "failed"
           \/ reqs'[r].resp.status >= 500) =>
         /\ reqs'[r].answer.status = 502
         /\ reqs'[r].upstream = reqs[r].upstream
         /\ gwUp']_vars

\* C25: when the connection to the backend fails the caller is answered 502
\* with the error's text; a 5xx answer of the backend is relayed with its
\* own status; in both cases the upstream call is not made again and the
\* step leaves the gateway up.
C25_ConnectionFailureGives502 ==
  [][\A r \in ReqIds :
       /\ reqs[r].upstream = 1 => reqs'[r].upstream = 1
       /\ FetchEnds(r) =>
            LET q == reqs'[r]
            IN  /\ gwUp'
                /\ q.resp.kind = "failed" =>
                     /\ q.pc = "done"
                     /\ q.answer =
                          [status |-> 502, ctype |-> "application/json",
                           body |-> [error |-> <<"fetch failed">>],
                           ended |-> TRUE]
                /\ (q.resp.kind = "response" /\ q.resp.status >= 500) =>
                     q.answer.status = q.resp.status]_vars

\* The connection to the backend failed and the caller was answered 502.
C25_Witness ==
  \E r \in ReqIds :
    /\ reqs[r].resp.kind = "failed"
    /\ reqs[r].answer.status = 502
    /\ reqs[r].upstream = 1
    /\ gwUp

\* C26: while the gateway runs, a GET /health is answered 200 with
\* {status, version}; answering it reads and writes no credential file and
\* touches no request, whatever the store holds and whatever requests are
\* being handled or streamed.
C26_HealthAlwaysAnswers200 ==
  [][probe' # probe =>
       \/ probe' = NoProbe
       \/ /\ probe' = [status |-> 200, ctype |-> "application/json",
                       body |-> [status |-> "ok", version |-> "0.1.0-builtin"],
                       ended |-> TRUE]
          /\ UNCHANGED <<multiFile, legacyFile, reqs, gwUp>>]_vars

\* GET /health was answered while a request was streaming.
C26_Witness ==
  /\ probe.status = 200
  /\ \E r \in ReqIds : reqs[r].pc = "relaying" /\ reqs[r].chunks = MaxChunks

\* C27: once the caller has closed its connection, no further chunk is read
\* from the upstream body.
C27_DisconnectStopsReading ==
  \A r \in ReqIds :
    reqs[r].goneAt # -1 => reqs[r].chunks = reqs[r].goneAt

\* C28: a request whose body is empty, is no JSON or is the JSON value null
\* is handled as a request with body {}: no exception is raised for it, and
\* it is answered 400 no-route when the empty model name matches no route,
\* and takes the route the empty name matches otherwise.
C28_MalformedBodyIsEmptyObject ==
  \A r \in ReqIds :
    LET q == reqs[r]
        i == FindRoute(routes, <<>>)
    IN  (Handled(q) /\ q.raw \in {"empty", "text", "null"}) =>
          /\ ~q.raised
          /\ q.route = i
          /\ i = 0 => q.answer = Answer(400, NoRouteBody(<<>>))

-----------------------------------------------------------------------------
(* ProxyManager.start                                                      *)

\* startCliProxy up to its await of waitForReady: the child is spawned, its
\* pid saved.
startCliProxy(m) ==
  [m EXCEPT !.process = ChildPid, !.alive = @ \cup {ChildPid},
            !.spawned = @ + 1, !.pidFile = ChildPid, !.pidWrites = @ + 1,
            !.startedAt = TRUE, !.how = "launched", !.pc = "waiting"]

\* startBuiltinProxy: server.listen(config.port).  Its callback saves the
\* pid and resolves the promise.  When the port is taken the server emits
\* 'error', for which there is no listener: the process ends and the promise
\* is never settled.
startBuiltinProxy(m) ==
  IF m.port = PortFree
  THEN [m EXCEPT !.port = SelfPid, !.bound = TRUE, !.startedAt = TRUE,
                 !.pidFile = SelfPid, !.pidWrites = @ + 1,
                 !.how = "launched", !.pc = "returned", !.running = TRUE]
  ELSE [m EXCEPT !.alive = @ \ {SelfPid}, !.how = "launched",
                 !.pc = "crashed"]

\* The machines start() may be called on: cli-proxy-api installed or not, a
\* pid file left by an earlier run or none, the process it names alive or
\* not, the port free, held by that process serving the gateway, or held by
\* another program.
ManagerInit ==
  /\ now = StartTime
  /\ multiFile = AbsentFile
  /\ legacyFile = AbsentFile
  /\ ops = 0
  /\ last = NoOp
  /\ writers = NoWriters
  /\ flows = [f \in FlowIds |-> IdleFlow]
  /\ authUp = TRUE
  /\ routes = DefaultRoutes
  /\ env = [n \in EnvNames |-> UNDEF]
  /\ gwUp = TRUE
  /\ reqs = [r \in ReqIds |-> NewRequest]
  /\ probe = NoProbe
  /\ \E installed \in BOOLEAN, pidFile \in {NoPid, OldPid},
        old \in SUBSET {OldPid}, port \in {PortFree, PortOther, OldPid} :
       /\ port = OldPid => OldPid \in old
       /\ mgr = [ManagerIdle EXCEPT !.installed = installed,
                                    !.pidFile = pidFile,
                                    !.alive = old \cup {SelfPid},
                                    !.port = port]

\* start(): lines 22-37, up to the return or to the await of waitForReady.
Start ==
  /\ mgr.pc = "idle"
  /\ LET st == ProxyStatus(mgr)
         m == [mgr EXCEPT !.pidFile = st.pidFile,
                          !.liveAtStart = HealthOk(mgr.port)]
     IN  mgr' = IF st.running
                THEN [m EXCEPT !.pc = "returned", !.how = "already",
                               !.running = TRUE]
                ELSE IF mgr.installed THEN startCliProxy(m)
                ELSE startBuiltinProxy(m)
  /\ UNCHANGED <<now, fileVars, opVars, authVars, routes, env, gwUp, reqs,
                 probe>>

\* waitForReady: a probe of /health is answered 2xx; startCliProxy returns
\* this.status().
ProbeSucceeds ==
  /\ mgr.pc = "waiting"
  /\ mgr.elapsed < ReadyTimeoutMs
  /\ HealthOk(mgr.port)
  /\ LET st == ProxyStatus(mgr)
     IN  mgr' = [mgr EXCEPT !.probes = @ + 1, !.probeOk = TRUE,
                            !.pc = "returned", !.running = st.running,
                            !.pidFile = st.pidFile]
  /\ UNCHANGED <<now, fileVars, opVars, authVars, routes, env, gwUp, reqs,
                 probe>>

\* waitForReady: a probe fails, at once or when it is aborted, and the loop
\* sleeps.
ProbeFails(spent) ==
  /\ mgr.pc = "waiting"
  /\ mgr.elapsed < ReadyTimeoutMs
  /\ ~HealthOk(mgr.port)
  /\ mgr' = [mgr EXCEPT !.probes = @ + 1,
                        !.elapsed = @ + spent + ProbeIntervalMs]
  /\ UNCHANGED <<now, fileVars, opVars, authVars, routes, env, gwUp, reqs,
                 probe>>

\* waitForReady: the time is up, the error is thrown out of start().
ReadyTimeout ==
  /\ mgr.pc = "waiting"
  /\ mgr.elapsed >= ReadyTimeoutMs
  /\ mgr' = [mgr EXCEPT !.pc = "threw",
                        !.error = "Proxy did not become ready within 10s"]
  /\ UNCHANGED <<now, fileVars, opVars, authVars, routes, env, gwUp, reqs,
                 probe>>

\* The spawned cli-proxy-api begins to listen on the port.
ChildServes ==
  /\ mgr.pc = "waiting"
  /\ ChildPid \in mgr.alive
  /\ mgr.port = PortFree
  /\ mgr' = [mgr EXCEPT !.port = ChildPid]
  /\ UNCHANGED <<now, fileVars, opVars, authVars, routes, env, gwUp, reqs,
                 probe>>

\* The spawned cli-proxy-api exits.
ChildExits ==
  /\ mgr.pc = "waiting"
  /\ ChildPid \in mgr.alive
  /\ mgr' = [mgr EXCEPT !.alive = @ \ {ChildPid},
                        !.port = IF @ = ChildPid THEN PortFree ELSE @]
  /\ UNCHANGED <<now, fileVars, opVars, authVars, routes, env, gwUp, reqs,
                 probe>>

\* No call of the manager is under way and the process it runs in is alive.
Callable == mgr.pc \in {"idle", "returned", "threw"}

\* SIGTERM reaches the process pid: it ends and gives up the port.
Terminated(m, pid) ==
  [m EXCEPT !.alive = @ \ {pid},
            !.port = IF @ = pid THEN PortFree ELSE @]

\* stop(): lines 42-58.  The signal goes to the child if there is one, else
\* to the pid on file; startBuiltinProxy saved process.pid there, so that a
\* stop() in the process that runs the built-in gateway signals itself and
\* ends before clearPid.
stop(m) ==
  LET pid == m.pidFile
  IN  IF m.process # NoPid
      THEN [Terminated(m, m.process) EXCEPT !.process = NoPid,
              !.startedAt = FALSE, !.pidFile = NoPid, !.call = Stopped]
      ELSE IF pid = SelfPid
      THEN [Terminated(m, pid) EXCEPT !.pc = "killed", !.call = StopKilled]
      ELSE [Terminated(m, pid) EXCEPT !.startedAt = FALSE,
              !.pidFile = NoPid, !.call = Stopped]

Stop ==
  /\ Callable
  /\ mgr' = stop(mgr)
  /\ UNCHANGED <<now, fileVars, opVars, authVars, routes, env, gwUp, reqs,
                 probe>>

\* status(): lines 81-96.
Status ==
  /\ Callable
  /\ mgr' = [mgr EXCEPT !.pidFile = ProxyStatus(mgr).pidFile,
                        !.call = Reported(mgr)]
  /\ UNCHANGED <<now, fileVars, opVars, authVars, routes, env, gwUp, reqs,
                 probe>>

\* A gateway process ends without the manager's doing.
ProcessDies(pid) ==
  /\ Callable
  /\ pid \in mgr.alive
  /\ mgr' = Terminated(mgr, pid)
  /\ UNCHANGED <<now, fileVars, opVars, authVars, routes, env, gwUp, reqs,
                 probe>>

ManagerNext ==
  \/ Start
  \/ ProbeSucceeds
  \/ \E spent \in {0, ProbeAbortMs} : ProbeFails(spent)
  \/ ReadyTimeout
  \/ ChildServes
  \/ ChildExits
  \/ Stop
  \/ Status
  \/ \E pid \in {OldPid, ChildPid} : ProcessDies(pid)

SpecManager == ManagerInit /\ [][ManagerNext]_vars

\* C29: start() is a no-op when the gateway is live: when GET /health of the
\* configured port is answered at the call, start() returns having spawned
\* no process, bound no listener and written no pid file; when it is not
\* answered, start() does not take the gateway for running.
C29_StartIsNoOpWhenLive ==
  mgr.pc # "idle" =>
    IF mgr.liveAtStart
    THEN /\ mgr.how = "already"
         /\ mgr.spawned = 0
         /\ ~mgr.bound
         /\ mgr.pidWrites = 0
    ELSE mgr.how # "already"

\* C30: a start() that launched a gateway reports it running only after a
\* probe of /health succeeded; while no probe has succeeded it keeps waiting
\* no longer than the bound and one more probe, and then ends by throwing
\* the readiness-timeout error: it ends in no other way.
C30_SuccessOnlyAfterProbe ==
  mgr.how = "launched" =>
    /\ mgr.pc \in {"waiting", "returned", "threw"}
    /\ (mgr.pc = "returned" /\ mgr.running) => mgr.probeOk
    /\ mgr.pc = "waiting" =>
         mgr.elapsed < ReadyTimeoutMs + ProbeAbortMs + ProbeIntervalMs
    /\ mgr.pc = "threw" =>
         /\ ~mgr.probeOk
         /\ mgr.error = "Proxy did not become ready within 10s"

\* C31: stop() is total and idempotent: called in any state it returns, and
\* when it has returned status() reports running = false, no pid file is
\* left, and another stop() changes nothing.
C31_StopIsTotalAndIdempotent ==
  [][Stop =>
       /\ mgr'.call = Stopped
       /\ ~Reported(mgr').running
       /\ mgr'.pidFile = NoPid
       /\ stop(mgr') = mgr']_vars

\* C32: status() reports running = true, with the pid and the port, exactly
\* when the tracked pid (the child's if there is a child, else the pid on
\* file) names a live process; when a pid is tracked and its process is
\* gone, it reports running = false without a pid and removes the pid file.
C32_StatusReconcilesPid ==
  [][Status =>
       LET pid == IF mgr.process # NoPid THEN mgr.process ELSE mgr.pidFile
           live == pid # NoPid /\ pid \in mgr.alive
       IN  /\ mgr'.call.running = live
           /\ live => /\ mgr'.call.pid = pid
                      /\ mgr'.call.port = 8317
                      /\ mgr'.pidFile = mgr.pidFile
           /\ ~live => /\ mgr'.call.pid = NoPid
                       /\ mgr'.pidFile = NoPid]_vars

\* status() was called after the process named by the pid file had died: it
\* reported not running and removed the file.
C32_Witness ==
  /\ mgr.call.op = "status"
  /\ ~mgr.call.running
  /\ mgr.how = "launched"
  /\ mgr.process = ChildPid
  /\ ChildPid \notin mgr.alive
  /\ mgr.pidFile = NoPid

\* C40: when start() has ended with the readiness-timeout error, no pid file
\* is left and no process is tracked, so that status() reports
\* running = false.
C40_FailedStartLeavesNothing ==
  mgr.pc = "threw" =>
    /\ mgr.pidFile = NoPid
    /\ mgr.process = NoPid
    /\ ~Reported(mgr).running

-----------------------------------------------------------------------------
(* Further properties of the login flow and of getValidToken               *)

\* C34: the callback listener is one-shot: a login flow issues at most one
\* token-exchange request, also when a further callback arrives while the
\* first exchange is in flight.
C34_OneExchangePerFlow ==
  \A f \in FlowIds : flows[f].tokenReqs <= 1

\* The last operation was a getValid(P) that found a credential inside the
\* window with a refresh_token and whose refresh request succeeded.
RefreshedInWindow ==
  /\ FirstCallInWindow
  /\ ~Undefined(Held(last), "refresh_token")
  /\ last.refresh = "ok"

\* C35: when the stored credential for P is inside the window, has a
\* refresh_token and the refresh succeeds, getValid(P) returns the newly
\* normalized credential (the response's fields, expiry counted from the
\* time of the call, tagged P) after one request; load(P) afterwards
\* gives that credential, for codex the legacy file mirrors it, and every
\* credential a later getValid(P) returns is the persisted one or the product
\* of a further refresh, never one read from before the refresh.
C35_RefreshedIsReturnedAndPersisted ==
  RefreshedInWindow
  => /\ last.res.kind = "cred"
     /\ \E r \in TokenResponses :
          last.res.val = toStoredTokens(r, last.p, last.at)
     /\ last.res.val.access_token = FullResponse.access_token
     /\ last.calls = 1
     /\ LoadNow(last.p).kind = "cred"
     /\ SameCred(LoadNow(last.p).val, last.res.val)
     /\ last.p = DefaultProvider =>
          /\ legacyFile.kind = "object"
          /\ SameCred(legacyFile.val, last.res.val)
     /\ \A o \in getValidToken(last.p, multiFile, legacyFile, now) :
          o.res.kind = "cred" =>
            \/ o.refresh = "ok"
            \/ o.calls = 0 /\ SameCred(o.res.val, last.res.val)

C35_Witness ==
  /\ RefreshedInWindow
  /\ HasLegacyOnly(last)
  /\ last.multiBefore = AbsentFile
  /\ last.res.kind = "cred"
  /\ Held(last).access_token # last.res.val.access_token
  /\ LoadNow(last.p).kind = "cred"
  /\ now > last.at
  /\ \E o \in getValidToken(last.p, multiFile, legacyFile, now) :
       o.res.kind = "cred" /\ o.calls = 0

\* C37: when the stored credential for P has a refresh_token and getValid(P)
\* refreshes it successfully, the credential persisted afterwards has a
\* refresh_token too, so that a later getValid(P) inside the window does not
\* give none without asking the token endpoint.
C37_RefreshKeepsRefreshToken ==
  RefreshedInWindow
  => /\ LoadNow(last.p).kind = "cred"
     /\ ~Undefined(LoadNow(last.p).val, "refresh_token")
     /\ \A o \in getValidToken(last.p, multiFile, legacyFile, now) :
          ~(o.res = NoneResult /\ o.calls = 0)

-----------------------------------------------------------------------------
(* getValidToken over every expiry a stored credential may carry           *)

\* A credential file written by hand or by an older version: no expires_at.
WithoutExpiry(c) == [k \in DOMAIN c \ {"expires_at"} |-> c[k]]

\* Expiry times a caller may hand to save: the epoch, a past time, a time
\* inside the window and a time well ahead.
ExpiryTimes ==
  {0, StartTime - Minute, StartTime + 4 * Minute, StartTime + 60 * Minute}

ExpiryCreds ==
  { InputCred(refresh, expires, UNDEF) :
      refresh \in {"r1", UNDEF}, expires \in ExpiryTimes }

ExpiryInit ==
  /\ now = StartTime
  /\ multiFile \in
       {AbsentFile}
       \cup { ObjectFile([p \in {q} |->
                WithoutExpiry(JsonRoundTrip(WithProvider(c, q)))]) :
                q \in Providers, c \in InitialCreds }
  /\ legacyFile \in
       {AbsentFile}
       \cup { ObjectFile(WithoutExpiry(JsonRoundTrip(c))) : c \in InitialCreds }
  /\ ops = 0
  /\ last = NoOp
  /\ writers = NoWriters
  /\ flows = [f \in FlowIds |-> IdleFlow]
  /\ authUp = TRUE
  /\ GatewayIdle

ExpiryNext ==
  \/ Tick
  \/ \E p \in Providers : GetValid(p)
  \/ \E p \in Providers, c \in ExpiryCreds : Save(p, c)

SpecExpiry == ExpiryInit /\ [][ExpiryNext]_vars

\* C38: every credential getValid(P) returns carries an expires_at later than
\* the time of the call, whatever credential was stored.
C38_ReturnedIsUnexpired ==
  (last.op = "getValid" /\ last.res.kind = "cred")
  => /\ "expires_at" \in DOMAIN last.res.val
     /\ last.res.val.expires_at > last.at

-----------------------------------------------------------------------------
(* saveProviderTokens, clearProviderToken and the refresh of getValidToken  *)
(* as the steps between their awaits, run by several callers at once        *)

\* The credential a concurrent caller saves.
WriterCred == InputCred("r1", StartTime + 60 * Minute, UNDEF)

\* The answers to a concurrent caller's refresh request: every field, or only
\* the required ones.
WriterResponses ==
  { r \in TokenResponses :
      ("refresh_token" \in DOMAIN r) = ("expires_in" \in DOMAIN r) }

\* Every provider holds a credential that is due for refresh.
RefreshableStore ==
  ObjectFile([p \in Providers |->
    JsonRoundTrip(WithProvider(InputCred("r1", StartTime + 4 * Minute, UNDEF),
                               p))])

Running(v) == writers[v].pc \in {"fetching", "read", "written"}

\* Writer w starts as rec: it and the writers then running have met.
Enters(w, rec) ==
  writers' =
    [v \in WriterIds |->
       IF v = w
       THEN [rec EXCEPT !.met = {u \in WriterIds \ {w} : Running(u)}]
       ELSE IF Running(v) THEN [writers[v] EXCEPT !.met = @ \cup {w}]
       ELSE writers[v]]

\* const existing = await loadProviderTokens(); on JSON null the assignment
\* to existing[provider] (or the delete) raises.
ReadsMap(x) ==
  LET all == loadProviderTokens(multiFile, legacyFile)
  IN  IF all.isNull THEN [x EXCEPT !.pc = "done"]
      ELSE [x EXCEPT !.pc = "read", !.existing = all.map]

\* save(p, c) or clear(p) is called and reads the map.
WriterBegins(w, op, p) ==
  /\ writers[w].pc = "idle"
  /\ \A j \in 1 .. w - 1 : writers[j].pc # "idle"
  /\ Enters(w, ReadsMap([IdleWriter EXCEPT
                           !.op = op, !.p = p,
                           !.arg = IF op = "save" THEN WriterCred
                                   ELSE EmptyObj]))
  /\ UNCHANGED <<now, fileVars, ops, last, authVars, gwVars>>

\* getValid(p) finds a credential due for refresh and sends the request.
GetValidBegins(w, p) ==
  /\ writers[w].pc = "idle"
  /\ \A j \in 1 .. w - 1 : writers[j].pc # "idle"
  /\ LET effective == Effective(p, multiFile, legacyFile)
     IN  /\ effective.kind = "cred"
         /\ ExpiresSoon(effective.val, now)
         /\ ~NoRefreshToken(effective.val)
  /\ Enters(w, [IdleWriter EXCEPT !.op = "refresh", !.p = p,
                                  !.pc = "fetching"])
  /\ UNCHANGED <<now, fileVars, ops, last, authVars, gwVars>>

\* The token endpoint answers; saveProviderTokens(provider, refreshed) reads
\* the map.
RefreshResponds(w, response) ==
  /\ writers[w].pc = "fetching"
  /\ writers' =
       [writers EXCEPT
          ![w] = ReadsMap([@ EXCEPT
                   !.arg = toStoredTokens(response, writers[w].p, now)])]
  /\ UNCHANGED <<now, fileVars, ops, last, authVars, gwVars>>

\* The refresh request fails: getValid returns null and writes nothing.
RefreshFails(w) ==
  /\ writers[w].pc = "fetching"
  /\ writers' = [writers EXCEPT ![w].pc = "done"]
  /\ UNCHANGED <<now, fileVars, ops, last, authVars, gwVars>>

\* await writeFile(MULTI_TOKEN_FILE, JSON.stringify(existing, null, 2))
WriterWrites(w) ==
  /\ writers[w].pc = "read"
  /\ LET x == writers[w]
     IN  /\ multiFile' = IF x.op = "clear" THEN ClearedMap(x.existing, x.p)
                         ELSE WrittenMap(x.existing, x.p, x.arg)
         /\ writers' =
              [writers EXCEPT
                 ![w].pc = IF x.p = "codex" THEN "written" ELSE "done",
                 ![w].order =
                   1 + Cardinality({v \in WriterIds : writers[v].order > 0})]
  /\ UNCHANGED <<now, legacyFile, ops, last, authVars, gwVars>>

\* if (provider === 'codex') await saveTokens(tokens) / await clearTokens()
WriterMirrors(w) ==
  /\ writers[w].pc = "written"
  /\ LET x == writers[w]
     IN  legacyFile' = IF x.op = "clear" THEN clearTokens(legacyFile)
                       ELSE SaveLegacyMirror(x.p, x.arg, legacyFile)
  /\ writers' = [writers EXCEPT ![w].pc = "done"]
  /\ UNCHANGED <<now, multiFile, ops, last, authVars, gwVars>>

WritersInit ==
  /\ now = StartTime
  /\ multiFile \in {AbsentFile, NullFile, RefreshableStore}
  /\ legacyFile \in
       {AbsentFile,
        ObjectFile(JsonRoundTrip(
          InputCred("r1", StartTime + 4 * Minute, UNDEF)))}
  /\ ops = 0
  /\ last = NoOp
  /\ writers = NoWriters
  /\ flows = [f \in FlowIds |-> IdleFlow]
  /\ authUp = TRUE
  /\ GatewayIdle

WritersNext ==
  \E w \in WriterIds :
    \/ \E op \in {"save", "clear"}, p \in Providers : WriterBegins(w, op, p)
    \/ \E p \in Providers : GetValidBegins(w, p)
    \/ \E r \in WriterResponses : RefreshResponds(w, r)
    \/ RefreshFails(w)
    \/ WriterWrites(w)
    \/ WriterMirrors(w)

SpecWriters == WritersInit /\ [][WritersNext]_vars

\* providers.json holds what writer w wrote: the entry it saved, or no entry
\* for the provider it cleared.
Present(w) ==
  LET x == writers[w]
  IN  /\ multiFile.kind = "object"
      /\ IF x.op = "clear" THEN x.p \notin DOMAIN multiFile.val
         ELSE /\ x.p \in DOMAIN multiFile.val
              /\ multiFile.val[x.p] = SavedEntry(x.p, x.arg)

Completed(w) == writers[w].pc = "done" /\ writers[w].order > 0

\* C33: the store is written by an unlocked read-modify-write of the whole
\* file.  When a writer has completed and every other writer is for another
\* provider and ran wholly before or wholly after it, providers.json holds
\* its update; an update goes missing only from a writer whose run was
\* interleaved with another's (the state C33_Witness describes, where two
\* writers for different providers have both completed and the file lacks
\* the update of the one that wrote first).
C33_SerialWritersKeepBoth ==
  \A w \in WriterIds :
    (/\ Completed(w)
     /\ \A v \in WriterIds \ {w} :
          writers[v].pc # "idle" =>
            writers[v].p # writers[w].p /\ v \notin writers[w].met)
    => Present(w)

C33_Witness ==
  \E w, v \in WriterIds :
    /\ Completed(w)
    /\ Completed(v)
    /\ writers[w].p # writers[v].p
    /\ writers[w].order < writers[v].order
    /\ v \in writers[w].met
    /\ ~Present(w)
    /\ Present(v)

-----------------------------------------------------------------------------
(* Request handlers running at once over the shared route table            *)

\* One request more than SpecGateway handles, so that handlers overlap.
ConcurrentIds == 1 .. MaxReqs + 1

GeminiPro == <<"g", "e", "m", "i", "n", "i", "-", "p", "r", "o">>

\* Requests for two models of the Gemini backend, for the Codex backend and
\* for the api-key backend.
ConcurrentInputs ==
  { [url |-> ChatUrl, raw |-> "object", parsed |-> Body(mdl, Array(Plain))] :
      mdl \in {Gemini, GeminiPro, Gpt, OpenAi} }

ConcurrentInit ==
  /\ now = StartTime
  /\ multiFile = ObjectFile([p \in Providers |->
                   StoredCred(p, "r1", StartTime + 60 * Minute)])
  /\ legacyFile = AbsentFile
  /\ ops = 0
  /\ last = NoOp
  /\ writers = NoWriters
  /\ flows = [f \in FlowIds |-> IdleFlow]
  /\ authUp = TRUE
  /\ routes = DefaultRoutes
  /\ env = [n \in EnvNames |-> "sk-1"]
  /\ gwUp = TRUE
  /\ reqs = [r \in ConcurrentIds |-> NewRequest]
  /\ probe = NoProbe
  /\ mgr = ManagerIdle

ConcurrentNext ==
  \E r \in ConcurrentIds :
    \/ \E in \in ConcurrentInputs : Receive(r, in)
    \/ TokenReady(r)
    \/ UpstreamResponds(r, 200, UNDEF, FALSE)
    \/ UpstreamFails(r)

SpecConcurrent == ConcurrentInit /\ [][ConcurrentNext]_vars

\* The URL the configured table gives for a request of `model` matched to
\* route i.
OwnUrl(i, model) ==
  LET backend == DefaultRoutes[i].backend
  IN  IF backend.auth = "gemini-oauth"
      THEN [base |-> backend.url, model |-> model,
            suffix |-> ":generateContent"]
      ELSE [base |-> backend.url, model |-> <<>>, suffix |-> ""]

\* C39: under every interleaving of the handlers at their awaits, each
\* request that is forwarded goes to the URL derived from its own matched
\* route and its own model, and the route table equals the configured table
\* in every state (no handler leaves a per-request URL on a route).
C39_RequestsKeepTheirOwnUrl ==
  /\ routes = DefaultRoutes
  /\ \A r \in ConcurrentIds :
       reqs[r].upstream > 0 =>
         /\ reqs[r].route = FindRoute(DefaultRoutes, ModelOf(reqs[r].parsed))
         /\ reqs[r].sent.url = OwnUrl(reqs[r].route, ModelOf(reqs[r].parsed))

C39_Witness ==
  \E r, s \in ConcurrentIds :
    /\ reqs[r].pc = "fetching"
    /\ reqs[s].pc = "fetching"
    /\ ModelOf(reqs[r].parsed) = Gemini
    /\ ModelOf(reqs[s].parsed) \in {GeminiPro, Gpt}
    /\ reqs[r].sent.url # reqs[s].sent.url

-----------------------------------------------------------------------------
(* The gateway while credentials are saved and cleared                     *)

\* Credentials saved while the gateway runs: one valid for an hour, one
\* expired that cannot be refreshed.
LiveCreds ==
  { InputCred("r1", StartTime + 60 * Minute, UNDEF),
    InputCred(UNDEF, StartTime - Minute, UNDEF) }

\* Requests for the three OAuth backends.
LiveInputs ==
  { [url |-> ChatUrl, raw |-> "object", parsed |-> Body(mdl, Array(Plain))] :
      mdl \in {Gpt, Claude, Gemini} }

\* The gateway starts against an empty store, or against one holding a
\* credential for every provider, with or without a legacy file.
LiveInit ==
  /\ now = StartTime
  /\ multiFile \in
       {AbsentFile,
        ObjectFile([p \in Providers |->
          StoredCred(p, "r1", StartTime + 60 * Minute)])}
  /\ legacyFile \in
       {AbsentFile,
        ObjectFile(JsonRoundTrip(
          InputCred(UNDEF, StartTime + 60 * Minute, UNDEF)))}
  /\ ops = 0
  /\ last = NoOp
  /\ writers = NoWriters
  /\ flows = [f \in FlowIds |-> IdleFlow]
  /\ authUp = TRUE
  /\ GatewayIdle

LiveNext ==
  \/ \E r \in ReqIds, in \in LiveInputs : Receive(r, in)
  \/ \E r \in ReqIds : TokenReady(r)
  \/ \E r \in ReqIds : UpstreamResponds(r, 200, UNDEF, FALSE)
  \/ \E r \in ReqIds : UpstreamFails(r)
  \/ \E p \in Providers : Clear(p)
  \/ \E p \in Providers, c \in LiveCreds : Save(p, c)

SpecLive == LiveInit /\ [][LiveNext]_vars

\* The provider whose credential request r waits for.
AwaitedProvider(r) == ProviderOf(routes[reqs[r].route].backend.auth)

\* C36: the gateway consults the store afresh for every request.  When the
\* last store operation was a completed clear(P), a request routed to P's
\* OAuth backend whose credential lookup returns is answered 401 without an
\* upstream request and without a write to the store; when it was a
\* completed save(P, c) of a credential more than 5 minutes from expiry, the
\* request is forwarded carrying c's access token.
C36_StoreConsultedPerRequest ==
  [][\A r \in ReqIds :
       (TokenReady(r) /\ last.p = AwaitedProvider(r) /\ ~last.threw) =>
         /\ last.op = "clear" =>
              /\ reqs'[r].pc = "done"
              /\ reqs'[r].answer.status = 401
              /\ reqs'[r].upstream = 0
              /\ multiFile' = multiFile /\ legacyFile' = legacyFile
         /\ (last.op = "save" /\ last.arg.expires_at > now + FiveMinutes) =>
              /\ reqs'[r].upstream = 1
              /\ SentToken(reqs'[r].sent.headers) = last.arg.access_token]_vars

\* The store held a credential for P when the gateway started, the one store
\* operation since was clear(P), and a request for P was answered 401.
C36_Witness ==
  \E r \in ReqIds :
    /\ ops = 1
    /\ last.op = "clear"
    /\ ~last.threw
    /\ LoadBefore(last.p).kind = "cred"
    /\ reqs[r].pc = "done"
    /\ reqs[r].route # 0
    /\ AwaitedProvider(r) = last.p
    /\ reqs[r].answer.status = 401
    /\ reqs[r].upstream = 0
====
